---------------------------- MODULE Spec2Model ----------------------------
(***************************************************************************)
(* Front end of the CreamLinux installer (React hooks and components) as a *)
(* state machine.  Every handler, event listener and timer callback of the *)
(* hooks is one action; React effects that re-run after a state change are *)
(* folded into the action that causes the change.  The Tauri back end is   *)
(* not part of the sources: its commands are modelled from the design      *)
(* document (sections 4 and 6) and only at their boundary.                 *)
(*                                                                         *)
(* The script listed in the README (steam_dlc_fetcher.py) is modelled as   *)
(* well: its library scan, its DLC lookups and its installation, each a    *)
(* process with a program counter, one action per statement that reads or  *)
(* writes the outside world.                                               *)
(*                                                                         *)
(* Controls are modelled at the level of their handlers and their          *)
(* `disabled` / conditional-rendering conditions.  The dialog overlay is   *)
(* styling only: no handler checks it, and keyboard activation reaches the *)
(* controls behind it.                                                     *)
(***************************************************************************)
EXTENDS Integers, Sequences, FiniteSets, Bags, TLC

(***************************************************************************)
(* Bounds of the model                                                     *)
(***************************************************************************)
MaxInFlight == 2      \* job commands in flight
MaxCalls    == 1      \* DLC list commands in flight
MaxScans    == 2      \* scan_steam_games calls in flight
MaxDlcs     == 2      \* entries of the DLC list of the dialog
MaxTimers   == 1      \* pending completion timers of the DLC stream
MaxHideTimers == 1    \* pending hide timers of the progress dialog
MaxManifests == 2     \* appmanifest files the script finds
MaxDlcIds == 3        \* DLC ids the store lists for the selected game
MaxConfigCalls == 2   \* SmokeAPI configuration commands in flight

GameIds   == {"g1", "g2"}
GameOrder == <<"g1", "g2">>     \* order in which a scan returns the games
\* Whether the install tree of a game holds Steam API DLLs (api_files).
HasApiFiles == [g \in GameIds |-> g = "g1"]
\* The DLC catalog of every game (Steam application ids are global).
Catalog == [g \in GameIds |-> IF g = "g1" THEN {"a1"} ELSE {"b1"}]
CatalogOrder == [g \in GameIds |-> IF g = "g1" THEN <<"a1">> ELSE <<"b1">>]
Appids  == UNION { Catalog[g] : g \in GameIds }

NoFetch    == ""
NoConflict == [gameId |-> "", type |-> "none"]
NoTimer    == [kind |-> "none", remaining |-> <<>>]
NoStream   == [active |-> FALSE, todo |-> {}]

VARIABLES
    disk,               \* back end: what is on disk for every game
    manifest,           \* back end: the stored DLC configuration of a game
    streaming,          \* back end: the catalog stream of every game
    games,              \* useGames: games state (id -> record)
    isLoading,          \* useGames: isLoading
    isInitialLoad,      \* useGames: isInitialLoad
    scanCalls,          \* scan_steam_games calls in flight
    error,              \* useGames: error (whether it is set)
    refreshCalls,       \* those of scanCalls that handleRefresh awaits
    toasts,             \* useToasts: the toasts shown (of handleRefresh)
    jobs,               \* bag of job commands in flight
    conflicts,          \* useConflictDetection: conflicts
    currentConflict,    \* useConflictDetection: currentConflict
    showReminder,       \* useConflictDetection: showReminder
    isProcessing,       \* useConflictDetection: isProcessing
    resolvedConflicts,  \* useConflictDetection: resolvedConflicts
    conflictTimer,      \* pending setTimeout(100) of resolveConflict
    resolves,           \* resolve_platform_conflict calls in flight
    dlcDialog,          \* useDlcManager: dlcDialog; its field dlcsRef
                        \* tells apart the arrays that consecutive runs of
                        \* the enabled-state effect put in `dlcs`
    isFetchingDlcs,     \* useDlcManager: isFetchingDlcs
    activeDlcFetchId,   \* useDlcManager: activeDlcFetchId.current
    streamCalls,        \* stream_game_dlcs calls in flight (bag of ids)
    editCalls,          \* get_all_dlcs_command calls in flight (bag of ids)
    enabledCalls,       \* get_enabled_dlcs_command calls in flight (ids)
    doneTimers,         \* pending setTimeout(500) of the progress listener
    abortCalls,         \* abort_dlc_fetch calls in flight
    selectedDlcs,       \* DlcSelectionDialog: selectedDlcs
    initialized,        \* DlcSelectionDialog: initialized
    progressDialog,     \* useGameActions: progressDialog
    hideTimers,         \* pending setTimeout callbacks hiding that dialog
    acf_files,          \* script: the appmanifest files of the library folder
    item,               \* script, find_steam_apps: index of the next file
    steam_apps,         \* script, find_steam_apps: keys of `games`
    scan_pc,            \* script, find_steam_apps: where it stands
    game_dlcs,          \* script, fetch_dlc_details: game_data["dlc"]
    dlc_id,             \* script, fetch_dlc_details: index of the next id
    dlc_details,        \* script, fetch_dlc_details: dlc_details
    responses,          \* the store's answers to the lookup of every id
    fetch_pc,           \* script, fetch_dlc_details: where it stands
    dir_before,         \* the install directory before install_files
    game_install_dir,   \* the install directory: file -> content
    install_pc,         \* script, install_files: where it stands
    smokeStore,         \* back end: the SmokeAPI configuration stored for
                        \* the path of every game
    smokeAPISettingsDialog, \* AppContext: smokeAPISettingsDialog
    smokeSettings,      \* SmokeAPISettingsDialog: enabled, config, isLoading
                        \* and hasChanges
    readCalls,          \* read_smokeapi_config calls in flight (bag of paths)
    saveCalls           \* write_ and delete_smokeapi_config calls in flight

gameVars     == <<games, isLoading, isInitialLoad, scanCalls, error,
                  refreshCalls, toasts>>
scanVars     == <<isLoading, isInitialLoad, scanCalls, error, refreshCalls,
                  toasts>>
hookVars     == <<showReminder, isProcessing, resolvedConflicts,
                  conflictTimer>>
conflictVars == <<conflicts, currentConflict, showReminder, isProcessing,
                  resolvedConflicts, conflictTimer, resolves>>
fetchVars    == <<isFetchingDlcs, activeDlcFetchId, streamCalls, streaming>>
progVars     == <<progressDialog, hideTimers>>
dlcVars      == <<dlcDialog, isFetchingDlcs, activeDlcFetchId, streamCalls,
                  editCalls, enabledCalls, doneTimers, streaming,
                  abortCalls, selectedDlcs, initialized>>
appVars == <<disk, manifest, games, isLoading, isInitialLoad, scanCalls, error,
             refreshCalls, toasts, jobs,
             conflicts, currentConflict, showReminder, isProcessing,
             resolvedConflicts, conflictTimer, resolves, dlcDialog,
             isFetchingDlcs, activeDlcFetchId, streamCalls, editCalls,
             enabledCalls, doneTimers, streaming, abortCalls, selectedDlcs,
             initialized, progressDialog, hideTimers>>
scanScriptVars    == <<acf_files, item, steam_apps, scan_pc>>
fetchScriptVars   == <<game_dlcs, dlc_id, dlc_details, responses, fetch_pc>>
installScriptVars == <<dir_before, game_install_dir, install_pc>>
scriptVars == <<scanScriptVars, fetchScriptVars, installScriptVars>>
smokeVars == <<smokeStore, smokeAPISettingsDialog, smokeSettings, readCalls,
               saveCalls>>
otherVars == <<scriptVars, smokeVars>>
uiVars == <<appVars, smokeVars>>
vars == <<appVars, scriptVars, smokeVars>>

(***************************************************************************)
(* Game records                                                            *)
(***************************************************************************)
\* States a game directory can be in when the application starts.  listed
\* tells whether a scan finds the game: the games of the model are those
\* of the library at that moment.
DiskStates ==
    { d \in [native : BOOLEAN, api_files : BOOLEAN,
             cream_installed : BOOLEAN, smoke_installed : BOOLEAN,
             listed : {TRUE}] :
        /\ d.cream_installed => d.native
        /\ d.smoke_installed => (~d.native /\ d.api_files) }

\* The Game record a back-end command or event carries for a directory.
GameOf(d) ==
    [native |-> d.native, api_files |-> d.api_files,
     cream_installed |-> d.cream_installed,
     smoke_installed |-> d.smoke_installed, installing |-> FALSE]

\* The games a scan of the directories d returns.
Scanned(d) == [g \in { h \in GameIds : d[h].listed } |-> GameOf(d[g])]

\* setGames(prev => prev.map(g => g.id === id ? {...g, installing} : g))
SetInstalling(gs, id, flag) ==
    [g \in DOMAIN gs |->
        IF g = id THEN [gs[g] EXCEPT !.installing = flag] ELSE gs[g]]

GameUpdated_upsert(gs, id, d) ==
    [g \in DOMAIN gs \cup {id} |-> IF g = id THEN GameOf(d) ELSE gs[g]]

\* 'game-updated' listener: replace the record with the payload's id.
GameUpdated(gs, id, d) ==
    [g \in DOMAIN gs |-> IF g = id THEN GameOf(d) ELSE gs[g]]

(***************************************************************************)
(* useConflictDetection: the detection effect                              *)
(***************************************************************************)
GameConflicts_noNative(gs, g) ==
    (IF gs[g].cream_installed
        THEN <<[gameId |-> g, type |-> "cream-to-proton"]>> ELSE <<>>)
    \o
    (IF gs[g].smoke_installed
        THEN <<[gameId |-> g, type |-> "smoke-to-native"]>> ELSE <<>>)

\* The conflicts one game contributes to a detection pass.
GameConflicts(gs, g) ==
    (IF ~gs[g].native /\ gs[g].cream_installed
        THEN <<[gameId |-> g, type |-> "cream-to-proton"]>> ELSE <<>>)
    \o
    (IF gs[g].native /\ gs[g].smoke_installed
        THEN <<[gameId |-> g, type |-> "smoke-to-native"]>> ELSE <<>>)

RECURSIVE DetectFrom(_, _, _)
DetectFrom(i, gs, skip) ==
    IF i > Len(GameOrder) THEN <<>>
    ELSE LET g == GameOrder[i] IN
         (IF g \in DOMAIN gs /\ g \notin skip
             THEN GameConflicts(gs, g) ELSE <<>>)
         \o DetectFrom(i + 1, gs, skip)

DetectConflicts_noSkip(gs, resolved) == DetectFrom(1, gs, {})

\* games.forEach(...) of the effect, skipping the resolved games
DetectConflicts(gs, resolved) == DetectFrom(1, gs, resolved)

SurfaceFirst_never(cur, detected, processing) == cur

\* "Show the first conflict if we have any and not currently processing"
SurfaceFirst(cur, detected, processing) ==
    IF Len(detected) > 0 /\ cur = NoConflict /\ ~processing
        THEN detected[1] ELSE cur

\* The effect, run after a handler left the hook with games gs, current
\* conflict cur, isProcessing processing and resolved set resolved.
DetectionEffect(gs, cur, processing, resolved) ==
    /\ conflicts' = DetectConflicts(gs, resolved)
    /\ currentConflict' =
          SurfaceFirst(cur, DetectConflicts(gs, resolved), processing)

\* A change of the games state alone re-runs the effect.
GamesChanged(gs) ==
    /\ games' = gs
    /\ DetectionEffect(gs, currentConflict, isProcessing, resolvedConflicts)
    /\ UNCHANGED hookVars

(***************************************************************************)
(* Back end, at its boundary (design document, sections 4.3, 4.4 and 6)    *)
(***************************************************************************)
\* Install flow, step Preparing: "for Cream, platform must be Native; for
\* Smoke, platform must be Compatibility-Layer and at least one capability
\* file present".  The other commands have no eligibility condition.
Eligible(d, cmd) ==
    CASE cmd = "install_smoke"           -> ~d.native /\ d.api_files
      [] cmd = "install_cream_with_dlcs" -> d.native
      [] OTHER                           -> TRUE

\* What a successful command leaves on disk.
Applied(d, cmd) ==
    CASE cmd = "install_smoke"           -> [d EXCEPT !.smoke_installed = TRUE]
      [] cmd = "uninstall_smoke"         -> [d EXCEPT !.smoke_installed = FALSE]
      [] cmd = "install_cream_with_dlcs" -> [d EXCEPT !.cream_installed = TRUE]
      [] cmd = "uninstall_cream"         -> [d EXCEPT !.cream_installed = FALSE]
      [] OTHER                           -> d

\* resolve_platform_conflict: "remove the mismatched artifacts and clear
\* installed_kind".
Resolved(d, type) ==
    IF type = "cream-to-proton"
        THEN [d EXCEPT !.cream_installed = FALSE]
        ELSE [d EXCEPT !.smoke_installed = FALSE]

\* The configurations that can be stored for a game when the application
\* starts: none, or the catalog with any enabled flags.
StoredLists(g) ==
    {<<>>} \cup
    { [i \in 1..Len(CatalogOrder[g]) |->
          [appid |-> CatalogOrder[g][i], enabled |-> e[i]]] :
        e \in [1..Len(CatalogOrder[g]) -> BOOLEAN] }

\* A configuration written when the catalog still held a DLC that has been
\* delisted since.
OlderLists(g) ==
    { <<[appid |-> IF g = "g1" THEN "a0" ELSE "b0", enabled |-> TRUE]>> }

NoManifest == [dlcs |-> <<>>, writer |-> "none"]

\* What a successful command leaves in the stored configuration m of its
\* game: install and update write the submitted list, the removal of
\* CreamLinux deletes the configuration.
Stored(m, cmd, dlcs) ==
    CASE cmd = "install_cream_with_dlcs"  -> [dlcs |-> dlcs, writer |-> "install"]
      [] cmd = "update_dlc_configuration" -> [dlcs |-> dlcs, writer |-> "update"]
      [] cmd = "uninstall_cream"          -> NoManifest
      [] OTHER                            -> m

\* get_enabled_dlcs_command: the appids the configuration enables
EnabledIn(list) ==
    { list[i].appid : i \in { k \in 1..Len(list) : list[k].enabled } }

\* Whether the terminal installation-progress event of a command carries
\* instructions (show_instructions): "for Install/Uninstall of the Cream
\* variant".
ShowsInstructions(cmd) ==
    cmd \in {"install_cream_with_dlcs", "uninstall_cream"}

\* The user changes, outside the application, how a game is run.
PlatformSwitch(g) ==
    /\ disk' = [disk EXCEPT ![g].native = ~disk[g].native]
    /\ UNCHANGED <<manifest, gameVars, jobs, conflictVars, dlcVars, progVars,
                   otherVars>>

\* The manifest of a game leaves the library or comes back to it (the
\* game is removed or added in Steam, or its manifest is unreadable for a
\* while and "skipped with a warning"); the install directory stays.
LibraryChange(g) ==
    /\ disk' = [disk EXCEPT ![g].listed = ~disk[g].listed]
    /\ UNCHANGED <<manifest, gameVars, jobs, conflictVars, dlcVars, progVars,
                   otherVars>>

(***************************************************************************)
(* useGames                                                                *)
(***************************************************************************)
\* loadGames up to the await: setIsLoading(true), setError(null)
StartScan ==
    /\ scanCalls < MaxScans
    /\ scanCalls' = scanCalls + 1
    /\ isLoading' = TRUE
    /\ error' = FALSE
    /\ UNCHANGED <<disk, manifest, games, isInitialLoad, toasts, jobs,
                   conflictVars, dlcVars, progVars, otherVars>>

\* loadGames as issued by the two initial-load effects (useGames and
\* useAppLogic), each at most once and only while isInitialLoad
loadGames ==
    /\ isInitialLoad
    /\ scanCalls < 2
    /\ StartScan
    /\ UNCHANGED refreshCalls

\* The Refresh button of the header, disabled while isLoading, and the
\* Retry button shown with the error: handleRefresh up to its await
handleRefresh ==
    /\ ~isInitialLoad
    /\ ~isLoading
    /\ StartScan
    /\ refreshCalls' = refreshCalls + 1

\* showToast('Game list refreshed', 'success')
RefreshedToast == [type |-> "success", message |-> "Game list refreshed"]

\* A call of loadGames returns, to an initial-load effect or to
\* handleRefresh.  loadGames catches a rejection itself and returns false,
\* so handleRefresh goes on after its await in either case; its own catch
\* block is never entered.
ScanSettles(byRefresh) ==
    /\ IF byRefresh THEN refreshCalls > 0 ELSE scanCalls > refreshCalls
    /\ scanCalls' = scanCalls - 1
    /\ refreshCalls' = IF byRefresh THEN refreshCalls - 1 ELSE refreshCalls
    /\ toasts' = IF byRefresh THEN toasts \cup {RefreshedToast} ELSE toasts
    /\ isLoading' = FALSE
    /\ isInitialLoad' = FALSE

\* scan_steam_games resolves: setGames(gamesWithPlatform)
loadGamesDone ==
    /\ \E byRefresh \in BOOLEAN : ScanSettles(byRefresh)
    /\ GamesChanged(Scanned(disk))
    /\ UNCHANGED <<disk, manifest, error, jobs, resolves, dlcVars, progVars,
                   otherVars>>

\* scan_steam_games rejects: setError(...), the games state is kept
loadGamesFailed ==
    /\ \E byRefresh \in BOOLEAN : ScanSettles(byRefresh)
    /\ error' = TRUE
    /\ UNCHANGED <<disk, manifest, games, jobs, conflictVars, dlcVars,
                   progVars, otherVars>>

\* A toast is dismissed or expires.
removeToast(t) ==
    /\ t \in toasts
    /\ toasts' = toasts \ {t}
    /\ UNCHANGED <<disk, manifest, games, isLoading, isInitialLoad, scanCalls,
                   error, refreshCalls, jobs, conflictVars, dlcVars, progVars,
                   otherVars>>

\* GameList renders the cards of the games unless the error is shown in
\* its place or a scan is running (it then shows the loading indicator).
CardsShown == ~error /\ ~isLoading

(***************************************************************************)
(* Job commands: GameItem, AppProvider.handleGameAction, useGameActions    *)
(***************************************************************************)
Job(g, cmd, dlcs) == [game |-> g, cmd |-> cmd, dlcs |-> dlcs]

\* The job commands in flight for game g, as a bag.
JobsOf(g) ==
    [j \in { k \in BagToSet(jobs) : k.game = g } |-> jobs[j]]

shouldShowCream(game) == game.native
shouldShowSmoke(game) == ~game.native /\ game.api_files
isProtonNoApi(game)   == ~game.native /\ ~game.api_files

\* action.includes('install'): true of 'uninstall_...' as well
IncludesInstall(action) ==
    action \in {"install_cream", "uninstall_cream",
                "install_smoke", "uninstall_smoke"}

\* setProgressDialog({visible: true, ..., progress: p,
\*                    showInstructions: false, instructions: undefined})
ShowProgress(p) ==
    [visible |-> TRUE, progress |-> p, showInstructions |-> FALSE]

HideProgress_unlessInstructions(pd) ==
    IF pd.showInstructions THEN pd ELSE [pd EXCEPT !.visible = FALSE]

\* setProgressDialog(prev => ({...prev, visible: false}))
HideProgress(pd) == [pd EXCEPT !.visible = FALSE]

\* What the settling of a command leaves in the progress dialog pd: the
\* terminal installation-progress event of a successful command, the
\* completion message of handleDlcConfirm in edit mode, or the error
\* message of the catch blocks.
SettledProgress(pd, cmd, ok) ==
    IF ok /\ cmd # "update_dlc_configuration" /\ ShowsInstructions(cmd)
        THEN [visible |-> TRUE, progress |-> 100, showInstructions |-> TRUE]
    ELSE IF ok /\ cmd # "update_dlc_configuration" THEN pd
    ELSE [pd EXCEPT !.progress = 100]

\* How many setTimeout callbacks hiding the dialog that settling starts.
SettledTimers(cmd, ok) ==
    IF ok /\ cmd # "update_dlc_configuration" /\ ShowsInstructions(cmd)
        THEN 0 ELSE 1

\* The progress dialog part of a settling command.
ProgressSettles(cmd, ok) ==
    /\ hideTimers + SettledTimers(cmd, ok) <= MaxHideTimers
    /\ hideTimers' = hideTimers + SettledTimers(cmd, ok)
    /\ progressDialog' = SettledProgress(progressDialog, cmd, ok)

StartGameAction_oneAtATime(g, action) ==
    /\ jobs = EmptyBag
    /\ jobs' = jobs (+) SetToBag({Job(g, action, <<>>)})
    /\ GamesChanged(SetInstalling(games, g, TRUE))
    /\ progressDialog' = ShowProgress(IF IncludesInstall(action)
                                         THEN 0 ELSE 30)
    /\ UNCHANGED <<disk, manifest, scanVars, resolves, dlcVars, hideTimers,
                   otherVars>>

\* AppProvider.handleGameAction for an action other than install_cream, up
\* to the await of process_game_action in useGameActions.handleGameAction.
StartGameAction(g, action) ==
    /\ BagCardinality(jobs) < MaxInFlight
    /\ jobs' = jobs (+) SetToBag({Job(g, action, <<>>)})
    /\ GamesChanged(SetInstalling(games, g, TRUE))
    /\ progressDialog' = ShowProgress(IF IncludesInstall(action)
                                         THEN 0 ELSE 30)
    /\ UNCHANGED <<disk, manifest, scanVars, resolves, dlcVars, hideTimers,
                   otherVars>>

\* GameItem.handleSmokeAction
handleSmokeAction(g) ==
    /\ CardsShown
    /\ g \in DOMAIN games
    /\ shouldShowSmoke(games[g])
    /\ ~games[g].installing
    /\ StartGameAction(g, IF games[g].smoke_installed
                             THEN "uninstall_smoke" ELSE "install_smoke")

\* GameItem.handleCreamAction, uninstall branch
handleCreamUninstall(g) ==
    /\ CardsShown
    /\ g \in DOMAIN games
    /\ shouldShowCream(games[g])
    /\ ~games[g].installing
    /\ games[g].cream_installed
    /\ StartGameAction(g, "uninstall_cream")

\* The Rescan button of a Proton game without API files
RescanClick(g) ==
    /\ CardsShown
    /\ g \in DOMAIN games
    /\ isProtonNoApi(games[g])
    /\ StartGameAction(g, "install_smoke")

FinishJob_everyGame(gs, g, ok) ==
    [h \in DOMAIN gs |-> [gs[h] EXCEPT !.installing = FALSE]]

FinishJob_successOnly(gs, g, ok) ==
    IF ok THEN SetInstalling(gs, g, FALSE) ELSE gs

\* What the `finally` of a job handler leaves in the games state.
FinishJob(gs, g, ok) == SetInstalling(gs, g, FALSE)

\* A job command resolves: the back end has applied it and emitted
\* game-updated; then the `finally` of the handler resets installing.
JobSucceeds(j) ==
    /\ BagIn(j, jobs)
    /\ Eligible(disk[j.game], j.cmd)
    /\ jobs' = jobs (-) SetToBag({j})
    /\ disk' = [disk EXCEPT ![j.game] = Applied(disk[j.game], j.cmd)]
    /\ manifest' = [manifest EXCEPT
                       ![j.game] = Stored(manifest[j.game], j.cmd, j.dlcs)]
    /\ GamesChanged(FinishJob(GameUpdated(games, j.game, disk'[j.game]),
                              j.game, TRUE))
    /\ ProgressSettles(j.cmd, TRUE)
    /\ UNCHANGED <<scanVars, resolves, dlcVars, otherVars>>

\* A job command rejects: nothing is applied.
JobFails(j) ==
    /\ BagIn(j, jobs)
    /\ jobs' = jobs (-) SetToBag({j})
    /\ GamesChanged(FinishJob(games, j.game, FALSE))
    /\ ProgressSettles(j.cmd, FALSE)
    /\ UNCHANGED <<disk, manifest, scanVars, resolves, dlcVars, otherVars>>

\* The 'installation-progress' listener, for an event of a running command
\* that is not its terminal one
InstallationProgress(j) ==
    /\ BagIn(j, jobs)
    /\ j.cmd # "update_dlc_configuration"
    /\ progressDialog # ShowProgress(50)
    /\ progressDialog' = ShowProgress(50)
    /\ UNCHANGED <<disk, manifest, gameVars, jobs, conflictVars, dlcVars,
                   hideTimers, otherVars>>

\* The setTimeout callbacks of the listener and of the two job handlers
hideTimerFires ==
    /\ hideTimers > 0
    /\ hideTimers' = hideTimers - 1
    /\ progressDialog' = HideProgress(progressDialog)
    /\ UNCHANGED <<disk, manifest, gameVars, jobs, conflictVars, dlcVars,
                   otherVars>>

\* const isCloseButtonEnabled = showInstructions || progress >= 100
isCloseButtonEnabled ==
    progressDialog.showInstructions \/ progressDialog.progress >= 100

\* The Close button of the progress dialog, enabled once instructions are
\* shown or the progress has reached 100
handleCloseProgressDialog ==
    /\ progressDialog.visible
    /\ progressDialog.showInstructions \/ progressDialog.progress >= 100
    /\ progressDialog' = [progressDialog EXCEPT !.visible = FALSE]
    /\ UNCHANGED <<disk, manifest, gameVars, jobs, conflictVars, dlcVars,
                   hideTimers, otherVars>>

handleBackdropClick_unguarded ==
    /\ progressDialog.visible
    /\ progressDialog' = [progressDialog EXCEPT !.visible = FALSE]
    /\ UNCHANGED <<disk, manifest, gameVars, jobs, conflictVars, dlcVars,
                   hideTimers, otherVars>>

\* A click on the backdrop of the progress dialog: Dialog calls onClose
\* unless preventBackdropClose is set or onClose is undefined, and
\* ProgressDialog passes preventBackdropClose={!isCloseButtonEnabled} and
\* onClose={isCloseButtonEnabled ? onClose : undefined}
handleBackdropClick ==
    /\ progressDialog.visible
    /\ ~(~isCloseButtonEnabled)
    /\ isCloseButtonEnabled
    /\ progressDialog' = [progressDialog EXCEPT !.visible = FALSE]
    /\ UNCHANGED <<disk, manifest, gameVars, jobs, conflictVars, dlcVars,
                   hideTimers, otherVars>>

(***************************************************************************)
(* useConflictDetection and App.handleConflictResolve                      *)
(***************************************************************************)
handleConflictResolve_dialogStays ==
    /\ currentConflict # NoConflict
    /\ resolvedConflicts' = resolvedConflicts \cup {currentConflict.gameId}
    /\ resolves' = resolves \cup {currentConflict}
    /\ UNCHANGED <<disk, manifest, gameVars, jobs, conflicts, currentConflict,
                   showReminder, isProcessing, conflictTimer, dlcVars,
                   progVars, otherVars>>

\* The Confirm button of the conflict dialog: resolveConflict() returns a
\* resolution and resolve_platform_conflict is invoked.
handleConflictResolve ==
    /\ currentConflict # NoConflict
    /\ ~isProcessing
    /\ isProcessing' = TRUE
    /\ resolvedConflicts' = resolvedConflicts \cup {currentConflict.gameId}
    /\ conflictTimer' =
          [kind |-> IF currentConflict.type = "cream-to-proton"
                       THEN "reminder" ELSE "next",
           remaining |-> SelectSeq(conflicts,
                            LAMBDA c : c.gameId # currentConflict.gameId)]
    /\ resolves' = resolves \cup {currentConflict}
    /\ DetectionEffect(games, NoConflict, TRUE, resolvedConflicts')
    /\ UNCHANGED <<disk, manifest, gameVars, jobs, showReminder, dlcVars,
                   progVars, otherVars>>

\* The setTimeout(..., 100) callbacks of resolveConflict
conflictTimerFires ==
    /\ conflictTimer # NoTimer
    /\ conflictTimer' = NoTimer
    /\ isProcessing' = FALSE
    /\ showReminder' = (showReminder \/ conflictTimer.kind = "reminder")
    /\ DetectionEffect(games,
          IF conflictTimer.kind = "next" /\ Len(conflictTimer.remaining) > 0
              THEN conflictTimer.remaining[1] ELSE currentConflict,
          FALSE, resolvedConflicts)
    /\ UNCHANGED <<disk, manifest, gameVars, jobs, resolvedConflicts,
                   resolves, dlcVars, progVars, otherVars>>

closeReminder ==
    /\ showReminder
    /\ showReminder' = FALSE
    /\ DetectionEffect(games,
          IF Len(conflicts) > 0 THEN conflicts[1] ELSE currentConflict,
          isProcessing, resolvedConflicts)
    /\ UNCHANGED <<disk, manifest, gameVars, jobs, isProcessing,
                   resolvedConflicts, conflictTimer, resolves, dlcVars,
                   progVars, otherVars>>

\* resolve_platform_conflict resolves: the artifacts are removed and the
\* game is announced with game-updated.
ResolveSucceeds(r) ==
    /\ r \in resolves
    /\ resolves' = resolves \ {r}
    /\ disk' = [disk EXCEPT ![r.gameId] = Resolved(disk[r.gameId], r.type)]
    /\ manifest' = [manifest EXCEPT
                       ![r.gameId] = IF r.type = "cream-to-proton"
                                        THEN NoManifest ELSE @]
    /\ GamesChanged(GameUpdated(games, r.gameId, disk'[r.gameId]))
    /\ UNCHANGED <<scanVars, jobs, dlcVars, progVars, otherVars>>

\* resolve_platform_conflict rejects: only a toast is shown.
ResolveFails(r) ==
    /\ r \in resolves
    /\ resolves' = resolves \ {r}
    /\ UNCHANGED <<disk, manifest, gameVars, jobs, conflicts, currentConflict,
                   hookVars, dlcVars, progVars, otherVars>>

(***************************************************************************)
(* DlcSelectionDialog: the reset and the initialise/merge effects          *)
(***************************************************************************)
AppidsOf(list) == { list[i].appid : i \in 1..Len(list) }

MergeSelection_overwrite(dlcs, selected, init) ==
    IF Len(dlcs) = 0 THEN [selected |-> selected, initialized |-> init]
    ELSE [selected |-> dlcs, initialized |-> TRUE]

MergeSelection_noFilter(dlcs, selected, init) ==
    IF Len(dlcs) = 0 THEN [selected |-> selected, initialized |-> init]
    ELSE IF ~init THEN [selected |-> dlcs, initialized |-> TRUE]
    ELSE [selected |-> selected \o <<dlcs[Len(dlcs)]>>, initialized |-> TRUE]

\* "Initialize selected DLCs when DLC list changes"
MergeSelection(dlcs, selected, init) ==
    IF Len(dlcs) = 0 THEN [selected |-> selected, initialized |-> init]
    ELSE IF ~init THEN [selected |-> dlcs, initialized |-> TRUE]
    ELSE [selected |-> selected \o
                       SelectSeq(dlcs, LAMBDA d :
                                    d.appid \notin AppidsOf(selected)),
          initialized |-> TRUE]

\* "Update DLCs being streamed with enabled state": the effect of
\* useDlcManager on [dlcDialog.dlcs, dlcDialog.enabledDlcs]
ApplyEnabled(dlcs, enabled) ==
    IF enabled = {} THEN dlcs
    ELSE [i \in 1..Len(dlcs) |->
             [dlcs[i] EXCEPT !.enabled = dlcs[i].appid \in enabled]]

\* setDlcDialog(dlg) followed by the effects of the dialog component, the
\* reset when `visible` became false and the merge of the new list, and
\* then by the effect of the hook (effects of a child run before those of
\* its parent), whose rewritten list brings no new appid to the merge.
DialogEffects(dlg) ==
    LET closed == dlcDialog.visible /\ ~dlg.visible
        m == MergeSelection(dlg.dlcs,
                            IF closed THEN <<>> ELSE selectedDlcs,
                            IF closed THEN FALSE ELSE initialized)
    IN  /\ dlcDialog' = [dlg EXCEPT
                            !.dlcs = ApplyEnabled(@, dlg.enabledDlcs)]
        /\ selectedDlcs' = m.selected
        /\ initialized' = m.initialized

(***************************************************************************)
(* useDlcManager                                                           *)
(***************************************************************************)
\* "Update DLCs being streamed with enabled state", run again: the run
\* before it, made with a stored set that is not empty, put the array that
\* `map` returned in `dlcs`, and `dlcs` is a dependency of the effect, which
\* React compares by identity. The run puts one more new array there; the
\* dialog component sees a new `dlcs` and merges it into the selection.
enabledEffectReruns ==
    /\ dlcDialog.enabledDlcs # {}
    /\ DialogEffects([dlcDialog EXCEPT !.dlcsRef = 1 - @])
    /\ UNCHANGED <<disk, manifest, gameVars, jobs, conflictVars, fetchVars,
                   editCalls, enabledCalls, doneTimers, abortCalls, progVars,
                   otherVars>>

\* The DLC list commands in flight.
DlcCallsInFlight ==
    BagCardinality(streamCalls) + BagCardinality(editCalls)
        + BagCardinality(enabledCalls)

\* streamGameDlcs up to the await of stream_game_dlcs, called by caller;
\* the back end starts the catalog stream of the game.
streamGameDlcs(g, caller) ==
    /\ isFetchingDlcs' = TRUE
    /\ activeDlcFetchId' = g
    /\ streamCalls' = streamCalls (+)
                          SetToBag({[game |-> g, caller |-> caller]})
    /\ streaming' = [streaming EXCEPT
                        ![g] = [active |-> TRUE, todo |-> Catalog[g]]]

\* stream_game_dlcs returns (the command is fire-and-forget: the stream may
\* still be running); the `finally` of streamGameDlcs resets the fetch
\* state, and handleGameEdit, when it is the caller, goes on to invoke
\* get_enabled_dlcs_command.
streamGameDlcsReturns(c) ==
    /\ BagIn(c, streamCalls)
    /\ streamCalls' = streamCalls (-) SetToBag({c})
    /\ isFetchingDlcs' = FALSE
    /\ activeDlcFetchId' = NoFetch
    /\ enabledCalls' = IF c.caller = "handleGameEdit"
                           THEN enabledCalls (+) SetToBag({c.game})
                           ELSE enabledCalls
    /\ UNCHANGED <<disk, manifest, gameVars, jobs, conflictVars, dlcDialog,
                   editCalls, doneTimers, streaming, abortCalls, selectedDlcs,
                   initialized, progVars, otherVars>>

\* stream_game_dlcs rejects, no stream runs: streamGameDlcs rethrows after
\* its `finally`. handleGameEdit catches the error, ends the loading state
\* and goes on; AppProvider.handleGameAction has called streamGameDlcs
\* without awaiting it, so nothing handles the rejection.
streamGameDlcsFails(c) ==
    /\ BagIn(c, streamCalls)
    /\ streamCalls' = streamCalls (-) SetToBag({c})
    /\ isFetchingDlcs' = FALSE
    /\ activeDlcFetchId' = NoFetch
    /\ streaming' = [streaming EXCEPT ![c.game] = NoStream]
    /\ enabledCalls' = IF c.caller = "handleGameEdit"
                           THEN enabledCalls (+) SetToBag({c.game})
                           ELSE enabledCalls
    /\ DialogEffects(IF c.caller = "handleGameEdit"
                         THEN [dlcDialog EXCEPT !.isLoading = FALSE]
                         ELSE dlcDialog)
    /\ UNCHANGED <<disk, manifest, gameVars, jobs, conflictVars, editCalls,
                   doneTimers, abortCalls, progVars, otherVars>>

\* get_enabled_dlcs_command settles (a rejection counts as no appid):
\* setDlcDialog(prev => ({...prev, enabledDlcs}))
getEnabledDlcsReturns(g, ok) ==
    /\ BagIn(g, enabledCalls)
    /\ enabledCalls' = enabledCalls (-) SetToBag({g})
    /\ DialogEffects([dlcDialog EXCEPT
          !.enabledDlcs = IF ok THEN EnabledIn(manifest[g].dlcs) ELSE {}])
    /\ UNCHANGED <<disk, manifest, gameVars, jobs, conflictVars, fetchVars,
                   editCalls, doneTimers, abortCalls, progVars, otherVars>>

handleCreamInstall_direct(g) ==
    /\ CardsShown
    /\ g \in DOMAIN games
    /\ shouldShowCream(games[g])
    /\ ~games[g].installing
    /\ ~games[g].cream_installed
    /\ StartGameAction(g, "install_cream_with_dlcs")

\* GameItem.handleCreamAction, install branch: AppProvider.handleGameAction
\* opens the DLC dialog and starts the stream.
handleCreamInstall(g) ==
    /\ CardsShown
    /\ g \in DOMAIN games
    /\ shouldShowCream(games[g])
    /\ ~games[g].installing
    /\ ~games[g].cream_installed
    /\ DlcCallsInFlight < MaxCalls
    /\ DialogEffects([visible |-> TRUE, gameId |-> g, dlcs |-> <<>>,
                      enabledDlcs |-> dlcDialog.enabledDlcs,
                      isLoading |-> TRUE, isEditMode |-> FALSE,
                      progress |-> 0, dlcsRef |-> dlcDialog.dlcsRef])
    /\ streamGameDlcs(g, "handleGameAction")
    /\ UNCHANGED <<disk, manifest, gameVars, jobs, conflictVars, editCalls,
                   enabledCalls, doneTimers, abortCalls, progVars,
                   otherVars>>

\* The 'dlc-found' listener
DlcFound(g, a) ==
    /\ streaming[g].active
    /\ a \in streaming[g].todo
    /\ Len(dlcDialog.dlcs) < MaxDlcs
    /\ streaming' = [streaming EXCEPT ![g].todo = @ \ {a}]
    /\ DialogEffects([dlcDialog EXCEPT
          !.dlcs = Append(@, [appid |-> a, enabled |-> TRUE])])
    /\ UNCHANGED <<disk, manifest, gameVars, jobs, conflictVars,
                   isFetchingDlcs, activeDlcFetchId, streamCalls, editCalls,
                   enabledCalls, doneTimers, abortCalls, progVars,
                   otherVars>>

\* The 'dlc-found' listener, for an item the stream has emitted before
\* ("the consumer is responsible for deduplication by item_id")
DlcFoundAgain(g, a) ==
    /\ streaming[g].active
    /\ a \in Catalog[g] \ streaming[g].todo
    /\ Len(dlcDialog.dlcs) < MaxDlcs
    /\ DialogEffects([dlcDialog EXCEPT
          !.dlcs = Append(@, [appid |-> a, enabled |-> TRUE])])
    /\ UNCHANGED <<disk, manifest, gameVars, jobs, conflictVars, fetchVars,
                   editCalls, enabledCalls, doneTimers, abortCalls, progVars,
                   otherVars>>

\* The 'dlc-progress' listener, for an event below 100
DlcProgress(g) ==
    /\ streaming[g].active
    /\ dlcDialog.progress # 50
    /\ DialogEffects([dlcDialog EXCEPT !.progress = 50])
    /\ UNCHANGED <<disk, manifest, gameVars, jobs, conflictVars, fetchVars,
                   editCalls, enabledCalls, doneTimers, abortCalls, progVars,
                   otherVars>>

\* The 'dlc-progress' listener, for the final event of a stream
DlcComplete(g) ==
    /\ streaming[g].active
    /\ streaming[g].todo = {}
    /\ doneTimers < MaxTimers
    /\ streaming' = [streaming EXCEPT ![g] = NoStream]
    /\ doneTimers' = doneTimers + 1
    /\ DialogEffects([dlcDialog EXCEPT !.progress = 100])
    /\ UNCHANGED <<disk, manifest, gameVars, jobs, conflictVars,
                   isFetchingDlcs, activeDlcFetchId, streamCalls, editCalls,
                   enabledCalls, abortCalls, progVars, otherVars>>

\* The setTimeout(..., 500) callback of the 'dlc-progress' listener
doneTimerFires ==
    /\ doneTimers > 0
    /\ doneTimers' = doneTimers - 1
    /\ isFetchingDlcs' = FALSE
    /\ activeDlcFetchId' = NoFetch
    /\ DialogEffects([dlcDialog EXCEPT !.isLoading = FALSE])
    /\ UNCHANGED <<disk, manifest, gameVars, jobs, conflictVars, streamCalls,
                   editCalls, enabledCalls, streaming, abortCalls, progVars,
                   otherVars>>

\* The 'dlc-error' listener
DlcError(g) ==
    /\ streaming[g].active
    /\ streaming' = [streaming EXCEPT ![g] = NoStream]
    /\ DialogEffects([dlcDialog EXCEPT !.isLoading = FALSE])
    /\ UNCHANGED <<disk, manifest, gameVars, jobs, conflictVars,
                   isFetchingDlcs, activeDlcFetchId, streamCalls, editCalls,
                   enabledCalls, doneTimers, abortCalls, progVars,
                   otherVars>>

\* abort_dlc_fetch reaches the back end: the stream of the game stops.
BackendAbort(g) ==
    /\ g \in abortCalls
    /\ abortCalls' = abortCalls \ {g}
    /\ streaming' = [streaming EXCEPT ![g] = NoStream]
    /\ UNCHANGED <<disk, manifest, gameVars, jobs, conflictVars, dlcDialog,
                   isFetchingDlcs, activeDlcFetchId, streamCalls, editCalls,
                   enabledCalls, doneTimers, selectedDlcs, initialized,
                   progVars, otherVars>>

\* handleGameEdit up to the await of get_all_dlcs_command
handleGameEdit(g) ==
    /\ CardsShown
    /\ g \in DOMAIN games
    /\ games[g].cream_installed
    /\ ~games[g].installing
    /\ ~(isFetchingDlcs /\ activeDlcFetchId = g)
    /\ DlcCallsInFlight < MaxCalls
    /\ editCalls' = editCalls (+) SetToBag({g})
    /\ DialogEffects([visible |-> TRUE, gameId |-> g, dlcs |-> <<>>,
                      enabledDlcs |-> {},
                      isLoading |-> TRUE, isEditMode |-> TRUE,
                      progress |-> 0, dlcsRef |-> dlcDialog.dlcsRef])
    /\ UNCHANGED <<disk, manifest, gameVars, jobs, conflictVars, fetchVars,
                   enabledCalls, doneTimers, abortCalls, progVars,
                   otherVars>>

\* handleGameEdit resumes with the stored configuration, which is not
\* empty
handleGameEditLoaded(g) ==
    /\ BagIn(g, editCalls)
    /\ manifest[g].dlcs # <<>>
    /\ editCalls' = editCalls (-) SetToBag({g})
    /\ DialogEffects([dlcDialog EXCEPT !.dlcs = manifest[g].dlcs,
                                       !.isLoading = FALSE,
                                       !.progress = 100])
    /\ UNCHANGED <<disk, manifest, gameVars, jobs, conflictVars, fetchVars,
                   enabledCalls, doneTimers, abortCalls, progVars,
                   otherVars>>

\* handleGameEdit resumes with an empty list, because nothing is stored or
\* because get_all_dlcs_command was rejected, and falls back to the stream
handleGameEditFallback(g) ==
    /\ BagIn(g, editCalls)
    /\ editCalls' = editCalls (-) SetToBag({g})
    /\ streamGameDlcs(g, "handleGameEdit")
    /\ UNCHANGED <<disk, manifest, gameVars, jobs, conflictVars, dlcDialog,
                   enabledCalls, doneTimers, abortCalls, selectedDlcs,
                   initialized, progVars, otherVars>>

\* DlcSelectionDialog.handleToggleDlc: the checkbox of an item shown
handleToggleDlc(a) ==
    /\ dlcDialog.visible
    /\ a \in AppidsOf(selectedDlcs)
    /\ selectedDlcs' =
          [i \in 1..Len(selectedDlcs) |->
              IF selectedDlcs[i].appid = a
                  THEN [selectedDlcs[i] EXCEPT !.enabled = ~@]
                  ELSE selectedDlcs[i]]
    /\ UNCHANGED <<disk, manifest, gameVars, jobs, conflictVars, dlcDialog,
                   fetchVars, editCalls, enabledCalls, doneTimers, abortCalls,
                   initialized, progVars, otherVars>>

\* handleDlcDialogClose
handleDlcDialogClose ==
    LET abort == isFetchingDlcs /\ activeDlcFetchId # NoFetch
    IN  /\ abortCalls' = IF abort THEN abortCalls \cup {activeDlcFetchId}
                                  ELSE abortCalls
        /\ activeDlcFetchId' = IF abort THEN NoFetch ELSE activeDlcFetchId
        /\ isFetchingDlcs' = IF abort THEN FALSE ELSE isFetchingDlcs
        /\ DialogEffects([dlcDialog EXCEPT !.visible = FALSE,
                                           !.dlcs = <<>>])

\* The Cancel button of the DLC dialog (and its backdrop once loaded)
CancelClick ==
    /\ dlcDialog.visible
    /\ ~(dlcDialog.isLoading /\ dlcDialog.progress < 10)
    /\ handleDlcDialogClose
    /\ UNCHANGED <<disk, manifest, gameVars, jobs, conflictVars, streamCalls,
                   editCalls, enabledCalls, doneTimers, streaming, progVars,
                   otherVars>>

\* The primary button of the DLC dialog: DlcSelectionDialog.handleConfirm,
\* AppProvider.handleDlcConfirm and useGameActions.handleDlcConfirm up to
\* the await of the command.
handleDlcConfirm ==
    /\ dlcDialog.visible
    /\ ~dlcDialog.isLoading
    /\ dlcDialog.gameId \in DOMAIN games
    /\ BagCardinality(jobs) < MaxInFlight
    /\ handleDlcDialogClose
    /\ jobs' = jobs (+) SetToBag({Job(dlcDialog.gameId,
                  IF dlcDialog.isEditMode THEN "update_dlc_configuration"
                                          ELSE "install_cream_with_dlcs",
                  selectedDlcs)})
    /\ GamesChanged(SetInstalling(games, dlcDialog.gameId, TRUE))
    /\ progressDialog' = ShowProgress(IF dlcDialog.isEditMode THEN 30 ELSE 0)
    /\ UNCHANGED <<disk, manifest, scanVars, resolves, streamCalls, editCalls,
                   enabledCalls, doneTimers, streaming, hideTimers,
                   otherVars>>

(***************************************************************************)
(* The script of the README (steam_dlc_fetcher.py): install_files          *)
(***************************************************************************)
\* The members of creamlinux.zip, in the order extractall writes them.
ZipMembers == <<"cream.sh", "lib32Creamlinux.so", "lib64Creamlinux.so">>

\* The files install_files touches in the install directory of the game.
InstallFiles ==
    {"creamlinux.zip", "cream_api.ini"}
        \cup { ZipMembers[i] : i \in 1..Len(ZipMembers) }

\* The index of the member extractall writes next (0: all are written).
NextMember(dir) ==
    IF \A i \in 1..Len(ZipMembers) : dir[ZipMembers[i]] = "new" THEN 0
    ELSE CHOOSE i \in 1..Len(ZipMembers) :
            /\ dir[ZipMembers[i]] # "new"
            /\ \A k \in 1..(i - 1) : dir[ZipMembers[k]] = "new"

\* response = requests.get(zip_url): the answer is 200, another status
\* ("Failed to download the files needed for installation.") or the call
\* raises.
install_files_get(resp) ==
    /\ install_pc = "get"
    /\ install_pc' = CASE resp = "200"   -> "write_zip"
                        [] resp = "other" -> "declined"
                        [] OTHER          -> "raised"
    /\ UNCHANGED <<uiVars, scanScriptVars, fetchScriptVars, dir_before,
                   game_install_dir>>

\* with open(zip_path, 'wb') as f: f.write(response.content), the archive
\* being written into the install directory itself
install_files_write_zip(ok) ==
    /\ install_pc = "write_zip"
    /\ game_install_dir' =
          [game_install_dir EXCEPT
              !["creamlinux.zip"] = IF ok THEN "new" ELSE "partial"]
    /\ install_pc' = IF ok THEN "extract" ELSE "raised"
    /\ UNCHANGED <<uiVars, scanScriptVars, fetchScriptVars, dir_before>>

\* zip_ref.extractall(game_install_dir): one member is written over what
\* the directory holds, or the write fails part-way and extractall raises
install_files_extract(ok) ==
    /\ install_pc = "extract"
    /\ NextMember(game_install_dir) # 0
    /\ game_install_dir' =
          [game_install_dir EXCEPT
              ![ZipMembers[NextMember(game_install_dir)]] =
                  IF ok THEN "new" ELSE "partial"]
    /\ install_pc' = IF ok THEN "extract" ELSE "raised"
    /\ UNCHANGED <<uiVars, scanScriptVars, fetchScriptVars, dir_before>>

\* os.remove(zip_path) and os.chmod(cream_sh_path, ...)
install_files_remove_zip ==
    /\ install_pc = "extract"
    /\ NextMember(game_install_dir) = 0
    /\ game_install_dir' =
          [game_install_dir EXCEPT !["creamlinux.zip"] = "none"]
    /\ install_pc' = "write_ini"
    /\ UNCHANGED <<uiVars, scanScriptVars, fetchScriptVars, dir_before>>

\* with open(cream_api_path, 'w') as f: f.write(...): open truncates the
\* file, the write completes or fails part-way
install_files_write_ini(ok) ==
    /\ install_pc = "write_ini"
    /\ game_install_dir' =
          [game_install_dir EXCEPT
              !["cream_api.ini"] = IF ok THEN "new" ELSE "partial"]
    /\ install_pc' = IF ok THEN "done" ELSE "raised"
    /\ UNCHANGED <<uiVars, scanScriptVars, fetchScriptVars, dir_before>>

(***************************************************************************)
(* The script of the README: fetch_dlc_details                             *)
(***************************************************************************)
\* What the store can answer to the lookup of one DLC: 200 with the data,
\* 200 without it, 429, another status, or the request raises.
Answers == {"ok", "missing", "429", "status", "exception"}

\* for dlc_id in dlcs: the loop takes the next id, sleeps 0.3 s and sends
\* the request, or is through and dlc_details is returned
fetch_dlc_details_next ==
    /\ fetch_pc = "loop"
    /\ fetch_pc' = IF dlc_id > Len(game_dlcs) THEN "returned" ELSE "request"
    /\ UNCHANGED <<uiVars, scanScriptVars, installScriptVars, game_dlcs,
                   dlc_id, dlc_details, responses>>

\* The body of the loop once the store has answered with r
fetch_dlc_details_answer(r) ==
    /\ fetch_pc = "request"
    /\ responses' = [responses EXCEPT ![game_dlcs[dlc_id]] = Append(@, r)]
    /\ dlc_details' = IF r = "ok"
                          THEN Append(dlc_details, game_dlcs[dlc_id])
                          ELSE dlc_details
    /\ fetch_pc' = IF r = "429" THEN "rate_limited" ELSE "loop"
    /\ dlc_id' = IF r = "429" THEN dlc_id ELSE dlc_id + 1
    /\ UNCHANGED <<uiVars, scanScriptVars, installScriptVars, game_dlcs>>

\* "Rate limited! Please wait before trying again.": time.sleep(10) is
\* over, the body of the loop ends and the loop goes on to the next id
fetch_dlc_details_wakes ==
    /\ fetch_pc = "rate_limited"
    /\ fetch_pc' = "loop"
    /\ dlc_id' = dlc_id + 1
    /\ UNCHANGED <<uiVars, scanScriptVars, installScriptVars, game_dlcs,
                   dlc_details, responses>>

(***************************************************************************)
(* The script of the README: find_steam_apps and parse_acf                 *)
(***************************************************************************)
\* parse_acf finds the three entries it searches for in the file.
Parses(acf) == acf.appid /\ acf.name /\ acf.installdir

\* The body of the loop of find_steam_apps for a file parse_acf returns
\* from: the game is kept when its install path exists
find_steam_apps_item ==
    /\ scan_pc = "listing"
    /\ item <= Len(acf_files)
    /\ Parses(acf_files[item])
    /\ steam_apps' = IF acf_files[item].install_path
                         THEN steam_apps \cup {item} ELSE steam_apps
    /\ item' = item + 1
    /\ UNCHANGED <<uiVars, fetchScriptVars, installScriptVars, acf_files,
                   scan_pc>>

\* parse_acf for a file without one of the entries: re.search returns
\* None and `.group(1)` raises AttributeError, which neither parse_acf nor
\* find_steam_apps nor main catches
parse_acf_raises ==
    /\ scan_pc = "listing"
    /\ item <= Len(acf_files)
    /\ ~Parses(acf_files[item])
    /\ scan_pc' = "raised"
    /\ UNCHANGED <<uiVars, fetchScriptVars, installScriptVars, acf_files,
                   item, steam_apps>>

\* return games
find_steam_apps_returns ==
    /\ scan_pc = "listing"
    /\ item > Len(acf_files)
    /\ scan_pc' = "returned"
    /\ UNCHANGED <<uiVars, fetchScriptVars, installScriptVars, acf_files,
                   item, steam_apps>>

(***************************************************************************)
(* The script of the README: main                                          *)
(***************************************************************************)
\* The appmanifest files os.listdir can list: which entries each one holds
\* and whether the install path it names exists.
AcfFiles ==
    [appid : BOOLEAN, name : BOOLEAN, installdir : BOOLEAN,
     install_path : BOOLEAN]

AcfListings ==
    UNION { [1..n -> AcfFiles] : n \in 0..MaxManifests }

\* What an install directory holds of the files install_files touches: no
\* archive, each other file absent or left by an earlier installation.
InstallDirs ==
    { d \in [InstallFiles -> {"none", "old"}] : d["creamlinux.zip"] = "none" }

\* games = find_steam_apps(library_folders)
main_find_steam_apps(files) ==
    /\ scan_pc = "idle"
    /\ acf_files' = files
    /\ item' = 1
    /\ steam_apps' = {}
    /\ scan_pc' = "listing"
    /\ UNCHANGED <<uiVars, fetchScriptVars, installScriptVars>>

\* dlcs = fetch_dlc_details(selected_app_id), up to the loop: the store
\* lists n DLC ids for the selected game
main_fetch_dlc_details(n) ==
    /\ scan_pc = "returned"
    /\ steam_apps # {}
    /\ fetch_pc = "idle"
    /\ game_dlcs' = [i \in 1..n |-> i]
    /\ dlc_id' = 1
    /\ dlc_details' = <<>>
    /\ responses' = [i \in 1..n |-> <<>>]
    /\ fetch_pc' = "loop"
    /\ UNCHANGED <<uiVars, scanScriptVars, installScriptVars>>

\* install_files(selected_app_id, selected_install_dir, dlcs, ...)
main_install_files(dir) ==
    /\ fetch_pc = "returned"
    /\ install_pc = "idle"
    /\ dir_before' = dir
    /\ game_install_dir' = dir
    /\ install_pc' = "get"
    /\ UNCHANGED <<uiVars, scanScriptVars, fetchScriptVars>>

\* The script is not running.
ScanIdle ==
    /\ acf_files = <<>>
    /\ item = 1
    /\ steam_apps = {}
    /\ scan_pc = "idle"

FetchIdle ==
    /\ game_dlcs = <<>>
    /\ dlc_id = 1
    /\ dlc_details = <<>>
    /\ responses = <<>>
    /\ fetch_pc = "idle"

InstallIdle ==
    /\ dir_before = [f \in InstallFiles |-> "none"]
    /\ game_install_dir = [f \in InstallFiles |-> "none"]
    /\ install_pc = "idle"

ScriptIdle == ScanIdle /\ FetchIdle /\ InstallIdle

(***************************************************************************)
(* SmokeAPISettingsDialog                                                  *)
(***************************************************************************)
\* What read_smokeapi_config answers for a path that has no configuration.
NoConfig == [stored |-> FALSE]

\* SmokeAPIConfig, by the field the dropdown edits and one of the fields
\* the checkboxes edit; the other fields are carried along as they are.
DEFAULT_CONFIG == [default_app_status |-> "unlocked", logging |-> FALSE]

APP_STATUS_OPTIONS == {"unlocked", "locked", "original"}

\* The values a control of the dialog can give to a field.
ConfigValues(key) ==
    IF key = "default_app_status" THEN APP_STATUS_OPTIONS ELSE BOOLEAN

ConfigKeys == DOMAIN DEFAULT_CONFIG

\* The dialog right after construction.
SmokeIdle ==
    /\ smokeStore = [g \in GameIds |-> NoConfig]
    /\ smokeAPISettingsDialog = [visible |-> FALSE, gamePath |-> ""]
    /\ smokeSettings = [enabled |-> FALSE, config |-> DEFAULT_CONFIG,
                        isLoading |-> FALSE, hasChanges |-> FALSE]
    /\ readCalls = EmptyBag
    /\ saveCalls = EmptyBag

ConfigCallsInFlight == BagCardinality(readCalls) + BagCardinality(saveCalls)

\* write_smokeapi_config(path, config)
write_smokeapi_config(store, path, config) ==
    [store EXCEPT ![path] = [stored |-> TRUE, config |-> config]]

\* delete_smokeapi_config(path)
delete_smokeapi_config(store, path) == [store EXCEPT ![path] = NoConfig]

\* read_smokeapi_config(path) -> SmokeConfig | null
read_smokeapi_config(store, path) == store[path]

\* loadConfig after its await: what the dialog shows for the answer
Shown(settings, existingConfig) ==
    IF existingConfig.stored
        THEN [settings EXCEPT !.config = existingConfig.config,
                              !.enabled = TRUE, !.hasChanges = FALSE]
        ELSE [settings EXCEPT !.config = DEFAULT_CONFIG,
                              !.enabled = FALSE, !.hasChanges = FALSE]

\* handleSmokeAPISettingsOpen(gameId): the dialog becomes visible for the
\* path of the game, and the effect on [visible, gamePath, loadConfig]
\* calls loadConfig, up to its await.
handleSmokeAPISettingsOpen(g) ==
    /\ g \in DOMAIN games
    /\ ~(smokeAPISettingsDialog.visible
            /\ smokeAPISettingsDialog.gamePath = g)
    /\ ConfigCallsInFlight < MaxConfigCalls
    /\ smokeAPISettingsDialog' = [visible |-> TRUE, gamePath |-> g]
    /\ smokeSettings' = [smokeSettings EXCEPT !.isLoading = TRUE]
    /\ readCalls' = readCalls (+) SetToBag({g})
    /\ UNCHANGED <<appVars, scriptVars, smokeStore, saveCalls>>

\* read_smokeapi_config settles, loadConfig goes on.
loadConfigReturns(path) ==
    /\ BagIn(path, readCalls)
    /\ readCalls' = readCalls (-) SetToBag({path})
    /\ smokeSettings' =
          [Shown(smokeSettings, read_smokeapi_config(smokeStore, path))
              EXCEPT !.isLoading = FALSE]
    /\ UNCHANGED <<appVars, scriptVars, smokeStore, smokeAPISettingsDialog,
                   saveCalls>>

\* The checkbox "Enable SmokeAPI Configuration"
toggleEnabled ==
    /\ smokeAPISettingsDialog.visible
    /\ smokeSettings' = [smokeSettings EXCEPT !.enabled = ~@,
                                              !.hasChanges = TRUE]
    /\ UNCHANGED <<appVars, scriptVars, smokeStore, smokeAPISettingsDialog,
                   readCalls, saveCalls>>

\* updateConfig(key, value), called by the dropdown (disabled while the
\* configuration is not enabled) and by the checkboxes
updateConfig(key, value) ==
    /\ smokeAPISettingsDialog.visible
    /\ key = "default_app_status" => smokeSettings.enabled
    /\ value # smokeSettings.config[key]
    /\ smokeSettings' = [smokeSettings EXCEPT !.config[key] = value,
                                              !.hasChanges = TRUE]
    /\ UNCHANGED <<appVars, scriptVars, smokeStore, smokeAPISettingsDialog,
                   readCalls, saveCalls>>

\* handleCancel, called by the Cancel button (disabled while isLoading) and
\* by a click on the backdrop: setHasChanges(false), onClose()
handleCancel ==
    /\ smokeAPISettingsDialog.visible
    /\ smokeSettings' = [smokeSettings EXCEPT !.hasChanges = FALSE]
    /\ smokeAPISettingsDialog' =
          [smokeAPISettingsDialog EXCEPT !.visible = FALSE]
    /\ UNCHANGED <<appVars, scriptVars, smokeStore, readCalls, saveCalls>>

\* handleSave up to its await: the Save button is disabled while isLoading
\* or without changes.
handleSave ==
    /\ smokeAPISettingsDialog.visible
    /\ ~smokeSettings.isLoading
    /\ smokeSettings.hasChanges
    /\ ConfigCallsInFlight < MaxConfigCalls
    /\ smokeSettings' = [smokeSettings EXCEPT !.isLoading = TRUE]
    /\ saveCalls' = saveCalls (+)
          SetToBag({[path |-> smokeAPISettingsDialog.gamePath,
                     command |-> IF smokeSettings.enabled
                                     THEN "write_smokeapi_config"
                                     ELSE "delete_smokeapi_config",
                     config |-> smokeSettings.config]})
    /\ UNCHANGED <<appVars, scriptVars, smokeStore, smokeAPISettingsDialog,
                   readCalls>>

\* The command of handleSave resolves: setHasChanges(false), onClose(),
\* and the `finally`.
handleSaveDone(c) ==
    /\ BagIn(c, saveCalls)
    /\ saveCalls' = saveCalls (-) SetToBag({c})
    /\ smokeStore' =
          IF c.command = "write_smokeapi_config"
              THEN write_smokeapi_config(smokeStore, c.path, c.config)
              ELSE delete_smokeapi_config(smokeStore, c.path)
    /\ smokeSettings' = [smokeSettings EXCEPT !.hasChanges = FALSE,
                                              !.isLoading = FALSE]
    /\ smokeAPISettingsDialog' =
          [smokeAPISettingsDialog EXCEPT !.visible = FALSE]
    /\ UNCHANGED <<appVars, scriptVars, readCalls>>

\* The command of handleSave rejects: the `catch` logs, the `finally` ends
\* the loading state, the dialog stays open with its changes.
handleSaveFailed(c) ==
    /\ BagIn(c, saveCalls)
    /\ saveCalls' = saveCalls (-) SetToBag({c})
    /\ smokeSettings' = [smokeSettings EXCEPT !.isLoading = FALSE]
    /\ UNCHANGED <<appVars, scriptVars, smokeStore, smokeAPISettingsDialog,
                   readCalls>>

(***************************************************************************)
(* Specifications                                                          *)
(***************************************************************************)
\* The game directories the application can find when it starts.
InitialDisks ==
    { d \in [GameIds -> DiskStates] :
        \A g \in GameIds : d[g].api_files = HasApiFiles[g] }

\* The hooks right after construction, over the directories d, with the
\* games state gs and the loading flags of useGames.
HooksAt(d, m, gs, loading) ==
    /\ disk = d
    /\ manifest = m
    /\ games = gs
    /\ isLoading = loading
    /\ isInitialLoad = loading
    /\ scanCalls = 0
    /\ error = FALSE
    /\ refreshCalls = 0
    /\ toasts = {}
    /\ jobs = EmptyBag
    /\ conflicts = <<>>
    /\ currentConflict = NoConflict
    /\ showReminder = FALSE
    /\ isProcessing = FALSE
    /\ resolvedConflicts = {}
    /\ conflictTimer = NoTimer
    /\ resolves = {}
    /\ dlcDialog = [visible |-> FALSE, gameId |-> "", dlcs |-> <<>>,
                    enabledDlcs |-> {}, isLoading |-> FALSE,
                    isEditMode |-> FALSE, progress |-> 0, dlcsRef |-> 0]
    /\ isFetchingDlcs = FALSE
    /\ activeDlcFetchId = NoFetch
    /\ streamCalls = EmptyBag
    /\ editCalls = EmptyBag
    /\ enabledCalls = EmptyBag
    /\ doneTimers = 0
    /\ streaming = [g \in GameIds |-> NoStream]
    /\ abortCalls = {}
    /\ selectedDlcs = <<>>
    /\ initialized = FALSE
    /\ progressDialog = [visible |-> FALSE, progress |-> 0,
                         showInstructions |-> FALSE]
    /\ hideTimers = 0
    /\ SmokeIdle

\* The same, the script of the README not running.
InitAt(d, m, gs, loading) == HooksAt(d, m, gs, loading) /\ ScriptIdle

\* The configuration an installation of CreamLinux with every DLC of the
\* catalog enabled has stored.
InstalledManifest(d) ==
    [g \in GameIds |->
        IF d[g].cream_installed
            THEN [dlcs |-> [i \in 1..Len(CatalogOrder[g]) |->
                               [appid |-> CatalogOrder[g][i],
                                enabled |-> TRUE]],
                  writer |-> "install"]
            ELSE NoManifest]

InitWith(d, gs, loading) == InitAt(d, InstalledManifest(d), gs, loading)

\* The application starts: useState([]) and useState(true) of useGames.
Init == \E d \in InitialDisks : InitWith(d, <<>>, TRUE)

\* The application once the initial load has shown the library.
Loaded(d) == InitWith(d, [g \in GameIds |-> GameOf(d[g])], FALSE)

\* No unlocker is installed in any directory of d.
NothingInstalled(d) ==
    \A g \in GameIds : ~d[g].cream_installed /\ ~d[g].smoke_installed

\* Every action of the model.
Next ==
    \/ \E g \in GameIds : PlatformSwitch(g)
    \/ \E g \in GameIds : LibraryChange(g)
    \/ loadGames
    \/ handleRefresh
    \/ \E t \in toasts : removeToast(t)
    \/ loadGamesDone
    \/ loadGamesFailed
    \/ \E g \in GameIds : handleSmokeAction(g)
    \/ \E g \in GameIds : handleCreamUninstall(g)
    \/ \E g \in GameIds : RescanClick(g)
    \/ \E j \in BagToSet(jobs) : JobSucceeds(j)
    \/ \E j \in BagToSet(jobs) : JobFails(j)
    \/ \E j \in BagToSet(jobs) : InstallationProgress(j)
    \/ hideTimerFires
    \/ handleCloseProgressDialog
    \/ enabledEffectReruns
    \/ \E g \in GameIds : handleSmokeAPISettingsOpen(g)
    \/ \E g \in GameIds : loadConfigReturns(g)
    \/ toggleEnabled
    \/ \E key \in ConfigKeys : \E value \in ConfigValues(key) :
          updateConfig(key, value)
    \/ handleCancel
    \/ handleSave
    \/ \E c \in BagToSet(saveCalls) : handleSaveDone(c)
    \/ \E c \in BagToSet(saveCalls) : handleSaveFailed(c)
    \/ handleBackdropClick
    \/ handleConflictResolve
    \/ conflictTimerFires
    \/ closeReminder
    \/ \E r \in resolves : ResolveSucceeds(r)
    \/ \E r \in resolves : ResolveFails(r)
    \/ \E g \in GameIds : handleCreamInstall(g)
    \/ \E c \in BagToSet(streamCalls) : streamGameDlcsReturns(c)
    \/ \E c \in BagToSet(streamCalls) : streamGameDlcsFails(c)
    \/ \E g \in GameIds, a \in Appids : DlcFound(g, a)
    \/ \E g \in GameIds : DlcProgress(g)
    \/ \E g \in GameIds : DlcComplete(g)
    \/ \E g \in GameIds : DlcError(g)
    \/ doneTimerFires
    \/ \E g \in GameIds : BackendAbort(g)
    \/ \E g \in GameIds : handleGameEdit(g)
    \/ \E g \in GameIds : handleGameEditLoaded(g)
    \/ \E g \in GameIds : handleGameEditFallback(g)
    \/ \E g \in GameIds, ok \in BOOLEAN : getEnabledDlcsReturns(g, ok)
    \/ \E g \in GameIds, a \in Appids : DlcFoundAgain(g, a)
    \/ \E a \in Appids : handleToggleDlc(a)
    \/ CancelClick
    \/ handleDlcConfirm
    \/ \E files \in AcfListings : main_find_steam_apps(files)
    \/ find_steam_apps_item
    \/ parse_acf_raises
    \/ find_steam_apps_returns
    \/ \E n \in 0..MaxDlcIds : main_fetch_dlc_details(n)
    \/ fetch_dlc_details_next
    \/ \E r \in Answers : fetch_dlc_details_answer(r)
    \/ fetch_dlc_details_wakes
    \/ \E dir \in InstallDirs : main_install_files(dir)
    \/ \E resp \in {"200", "other", "exception"} : install_files_get(resp)
    \/ \E ok \in BOOLEAN : install_files_write_zip(ok)
    \/ \E ok \in BOOLEAN : install_files_extract(ok)
    \/ install_files_remove_zip
    \/ \E ok \in BOOLEAN : install_files_write_ini(ok)

Spec == Init /\ [][Next]_vars

\* The conflict reconciler alone: the platform of the games changes, the
\* library is rescanned, conflicts are resolved.
ReconcileNext ==
    \/ \E g \in GameIds : PlatformSwitch(g)
    \/ loadGames
    \/ handleRefresh
    \/ loadGamesDone
    \/ loadGamesFailed
    \/ handleConflictResolve
    \/ conflictTimerFires
    \/ closeReminder
    \/ \E r \in resolves : ResolveSucceeds(r)
    \/ \E r \in resolves : ResolveFails(r)

\* The user eventually answers a dialog that is shown, and a timer that is
\* pending eventually fires.
ReconcileFairness ==
    /\ WF_vars(handleConflictResolve)
    /\ WF_vars(conflictTimerFires)
    /\ WF_vars(closeReminder)

FairReconcileSpec == Init /\ [][ReconcileNext]_vars /\ ReconcileFairness

\* The conflict reconciler with SmokeAPI jobs changing the games under it
ConflictNext ==
    \/ \E g \in GameIds : PlatformSwitch(g)
    \/ handleRefresh
    \/ loadGamesDone
    \/ \E g \in GameIds : handleSmokeAction(g)
    \/ \E j \in BagToSet(jobs) : JobSucceeds(j)
    \/ \E j \in BagToSet(jobs) : JobFails(j)
    \/ hideTimerFires
    \/ handleConflictResolve
    \/ conflictTimerFires
    \/ closeReminder
    \/ \E r \in resolves : ResolveSucceeds(r)
    \/ \E r \in resolves : ResolveFails(r)

\* The library it starts from: CreamLinux is installed for the second
\* game, the first has at most SmokeAPI.
ConflictInit ==
    \E d \in InitialDisks :
        /\ d["g2"].cream_installed
        /\ ~d["g1"].cream_installed
        /\ Loaded(d)

ConflictSpec == ConflictInit /\ [][ConflictNext]_vars

\* The jobs of a library in which nothing is installed yet and the second
\* game runs through Proton: every control that starts a job, the install
\* dialog from its opening to its confirmation or cancellation, and the
\* settling of the commands.
JobInit ==
    \E d \in InitialDisks :
        /\ NothingInstalled(d)
        /\ ~d["g2"].native
        /\ InitWith(d, <<>>, TRUE)

JobNext ==
    \/ loadGames
    \/ handleRefresh
    \/ loadGamesDone
    \/ \E g \in GameIds : handleSmokeAction(g)
    \/ \E g \in GameIds : handleCreamUninstall(g)
    \/ \E g \in GameIds : RescanClick(g)
    \/ \E g \in GameIds : handleCreamInstall(g)
    \/ \E c \in BagToSet(streamCalls) : streamGameDlcsReturns(c)
    \/ \E g \in GameIds : DlcError(g)
    \/ CancelClick
    \/ handleDlcConfirm
    \/ \E j \in BagToSet(jobs) : JobSucceeds(j)
    \/ \E j \in BagToSet(jobs) : JobFails(j)
    \/ hideTimerFires

JobSpec == JobInit /\ [][JobNext]_vars

\* The DLC dialog and the catalog stream of a library of native games, the
\* first without CreamLinux (install flow), the second with it (edit flow).
StreamInit ==
    \E d \in InitialDisks :
        /\ \A g \in GameIds : d[g].native
        /\ \A g \in GameIds : d[g].cream_installed <=> g = "g2"
        /\ \E l \in (StoredLists("g2") \ {<<>>}) \cup OlderLists("g2") :
              InitAt(d, [g \in GameIds |->
                            IF g = "g2"
                                THEN [dlcs |-> l, writer |-> "install"]
                                ELSE NoManifest],
                     <<>>, TRUE)

StreamNext ==
    \/ loadGames
    \/ loadGamesDone
    \/ loadGamesFailed
    \/ \E g \in GameIds : handleCreamInstall(g)
    \/ \E c \in BagToSet(streamCalls) : streamGameDlcsReturns(c)
    \/ \E g \in GameIds, a \in Appids : DlcFound(g, a)
    \/ \E g \in GameIds : DlcProgress(g)
    \/ \E g \in GameIds : DlcComplete(g)
    \/ \E g \in GameIds : DlcError(g)
    \/ doneTimerFires
    \/ \E g \in GameIds : BackendAbort(g)
    \/ \E g \in GameIds : handleGameEdit(g)
    \/ \E g \in GameIds : handleGameEditLoaded(g)
    \/ \E g \in GameIds : handleGameEditFallback(g)
    \/ \E g \in GameIds, ok \in BOOLEAN : getEnabledDlcsReturns(g, ok)
    \/ CancelClick

StreamSpec == StreamInit /\ [][StreamNext]_vars

\* The install flow of a loaded library of native games without
\* CreamLinux, from the opening of the dialog to the installation.
ConfirmInit ==
    \E d \in InitialDisks :
        /\ \A g \in GameIds : d[g].native
        /\ NothingInstalled(d)
        /\ Loaded(d)

ConfirmNext ==
    \/ \E g \in GameIds : handleCreamInstall(g)
    \/ \E c \in BagToSet(streamCalls) : streamGameDlcsReturns(c)
    \/ \E g \in GameIds, a \in Appids : DlcFound(g, a)
    \/ \E g \in GameIds : DlcProgress(g)
    \/ \E g \in GameIds : DlcComplete(g)
    \/ doneTimerFires
    \/ CancelClick
    \/ handleDlcConfirm
    \/ \E j \in BagToSet(jobs) : JobSucceeds(j)

ConfirmSpec == ConfirmInit /\ [][ConfirmNext]_vars

\* The install button of a card, used while no DLC dialog covers the list.
InstallFromList(g) == ~dlcDialog.visible /\ handleCreamInstall(g)

\* The install dialog alone, from its opening to its closing, the command
\* that starts the stream returning or rejecting.
OpenNext ==
    \/ \E g \in GameIds : InstallFromList(g)
    \/ \E c \in BagToSet(streamCalls) : streamGameDlcsReturns(c)
    \/ \E c \in BagToSet(streamCalls) : streamGameDlcsFails(c)
    \/ \E g \in GameIds, a \in Appids : DlcFound(g, a)
    \/ \E g \in GameIds : DlcProgress(g)
    \/ \E g \in GameIds : DlcComplete(g)
    \/ \E g \in GameIds : DlcError(g)
    \/ doneTimerFires
    \/ \E g \in GameIds : BackendAbort(g)
    \/ CancelClick

\* A command in flight settles, a running stream emits its events and
\* ends, a pending timer fires; the user need not act.
OpenFairness ==
    /\ WF_vars(\E c \in BagToSet(streamCalls) :
                  streamGameDlcsReturns(c) \/ streamGameDlcsFails(c))
    /\ WF_vars(\E g \in GameIds, a \in Appids : DlcFound(g, a))
    /\ WF_vars(\E g \in GameIds : DlcProgress(g))
    /\ WF_vars(\E g \in GameIds : DlcComplete(g) \/ DlcError(g))
    /\ WF_vars(doneTimerFires)
    /\ WF_vars(\E g \in GameIds : BackendAbort(g))

OpenSpec == ConfirmInit /\ [][OpenNext]_vars

FairOpenSpec == ConfirmInit /\ [][OpenNext]_vars /\ OpenFairness

\* The selection of the install dialog under a stream that repeats items:
\* the items of two native games arrive in any order and any number of
\* times, are toggled and are submitted.
SelectionNext ==
    \/ \E g \in GameIds : handleCreamInstall(g)
    \/ \E c \in BagToSet(streamCalls) : streamGameDlcsReturns(c)
    \/ \E g \in GameIds, a \in Appids : DlcFound(g, a)
    \/ \E g \in GameIds, a \in Appids : DlcFoundAgain(g, a)
    \/ \E g \in GameIds : DlcComplete(g)
    \/ doneTimerFires
    \/ \E a \in Appids : handleToggleDlc(a)
    \/ handleDlcConfirm

SelectionSpec == ConfirmInit /\ [][SelectionNext]_vars

\* The progress dialog over the jobs of a loaded library that is rescanned:
\* SmokeAPI for the first game, which runs through Proton, and the removal
\* of CreamLinux from the second.
ProgressInit ==
    \E d \in InitialDisks :
        /\ ~d["g1"].native
        /\ d["g2"].cream_installed
        /\ Loaded(d)

ProgressNext ==
    \/ handleRefresh
    \/ loadGamesDone
    \/ \E g \in GameIds : handleSmokeAction(g)
    \/ \E g \in GameIds : handleCreamUninstall(g)
    \/ \E j \in BagToSet(jobs) : InstallationProgress(j)
    \/ \E j \in BagToSet(jobs) : JobSucceeds(j)
    \/ \E j \in BagToSet(jobs) : JobFails(j)
    \/ hideTimerFires
    \/ handleCloseProgressDialog
    \/ handleBackdropClick

ProgressSpec == ProgressInit /\ [][ProgressNext]_vars

\* A timer that is pending eventually fires; the user need not act.
FairProgressSpec ==
    ProgressInit /\ [][ProgressNext]_vars /\ WF_vars(hideTimerFires)

\* The editor of a loaded library of native games, the second with
\* CreamLinux and a stored configuration: the configuration is loaded,
\* edited, saved and loaded again, while the install dialog of the first
\* game is opened and cancelled.
EditInit ==
    \E d \in InitialDisks :
        /\ \A g \in GameIds : d[g].native
        /\ \A g \in GameIds : d[g].cream_installed <=> g = "g2"
        /\ \E l \in StoredLists("g2") \ {<<>>} :
              InitAt(d, [g \in GameIds |->
                            IF g = "g2"
                                THEN [dlcs |-> l, writer |-> "install"]
                                ELSE NoManifest],
                     [g \in GameIds |-> GameOf(d[g])], FALSE)

EditNext ==
    \/ \E g \in GameIds : handleGameEdit(g)
    \/ \E g \in GameIds : handleGameEditLoaded(g)
    \/ \E g \in GameIds : handleCreamInstall(g)
    \/ \E c \in BagToSet(streamCalls) : streamGameDlcsReturns(c)
    \/ \E g \in GameIds, a \in Appids : DlcFound(g, a)
    \/ \E g \in GameIds : DlcProgress(g)
    \/ \E g \in GameIds : BackendAbort(g)
    \/ CancelClick
    \/ \E a \in Appids : handleToggleDlc(a)
    \/ handleDlcConfirm
    \/ \E j \in BagToSet(jobs) : JobSucceeds(j)
    \/ hideTimerFires

EditSpec == EditInit /\ [][EditNext]_vars

\* The editor of the second game over its catalog stream: the stored list
\* cannot be read, the items are streamed (some of them twice), the stored
\* enabled set is applied to them, and the user toggles items meanwhile.
ToggleNext ==
    \/ \E g \in GameIds : handleGameEdit(g)
    \/ \E g \in GameIds : handleGameEditFallback(g)
    \/ \E c \in BagToSet(streamCalls) : streamGameDlcsReturns(c)
    \/ \E g \in GameIds, ok \in BOOLEAN : getEnabledDlcsReturns(g, ok)
    \/ \E g \in GameIds, a \in Appids : DlcFound(g, a)
    \/ \E g \in GameIds, a \in Appids : DlcFoundAgain(g, a)
    \/ \E g \in GameIds : DlcProgress(g)
    \/ \E a \in Appids : handleToggleDlc(a)
    \/ CancelClick

ToggleSpec == EditInit /\ [][ToggleNext]_vars

\* The enabled-state effect of the editor: the second game is edited, its
\* stored list cannot be read, the catalog is streamed to its end and the
\* stored enabled set arrives. React runs the effects of every render.
RerunNext ==
    \/ \E g \in GameIds : handleGameEdit(g)
    \/ \E g \in GameIds : handleGameEditFallback(g)
    \/ \E c \in BagToSet(streamCalls) : streamGameDlcsReturns(c)
    \/ \E g \in GameIds, ok \in BOOLEAN : getEnabledDlcsReturns(g, ok)
    \/ \E g \in GameIds, a \in Appids : DlcFound(g, a)
    \/ \E g \in GameIds, a \in Appids : DlcFoundAgain(g, a)
    \/ \E g \in GameIds : DlcProgress(g)
    \/ \E g \in GameIds : DlcComplete(g)
    \/ doneTimerFires
    \/ enabledEffectReruns

FairRerunSpec ==
    EditInit /\ [][RerunNext]_vars /\ WF_vars(enabledEffectReruns)

\* The games state of a loaded library whose games come and go between
\* the scans, under the jobs that announce a game with game-updated, and
\* under scans that fail.
LibraryInit ==
    \E d \in InitialDisks :
        /\ ~d["g1"].native
        /\ d["g2"].cream_installed
        /\ Loaded(d)

LibraryNext ==
    \/ \E g \in GameIds : LibraryChange(g)
    \/ handleRefresh
    \/ loadGamesDone
    \/ loadGamesFailed
    \/ \E t \in toasts : removeToast(t)
    \/ \E g \in GameIds : handleSmokeAction(g)
    \/ \E g \in GameIds : handleCreamUninstall(g)
    \/ \E j \in BagToSet(jobs) : JobSucceeds(j)
    \/ \E j \in BagToSet(jobs) : JobFails(j)
    \/ hideTimerFires

LibrarySpec == LibraryInit /\ [][LibraryNext]_vars

\* The script of the README installs into one directory: the library is
\* scanned, the DLC list of the selected game is fetched.
ScriptHooks ==
    \E d \in InitialDisks :
        /\ NothingInstalled(d)
        /\ HooksAt(d, InstalledManifest(d), <<>>, TRUE)

ScannedOneGame ==
    /\ acf_files = <<[appid |-> TRUE, name |-> TRUE, installdir |-> TRUE,
                      install_path |-> TRUE]>>
    /\ item = 2
    /\ steam_apps = {1}
    /\ scan_pc = "returned"

FetchedOneDlc ==
    /\ game_dlcs = <<1>>
    /\ dlc_id = 2
    /\ dlc_details = <<1>>
    /\ responses = <<<<"ok">>>>
    /\ fetch_pc = "returned"

InstallInit == ScriptHooks /\ ScannedOneGame /\ FetchedOneDlc /\ InstallIdle

InstallNext ==
    \/ \E dir \in InstallDirs : main_install_files(dir)
    \/ \E resp \in {"200", "other", "exception"} : install_files_get(resp)
    \/ \E ok \in BOOLEAN : install_files_write_zip(ok)
    \/ \E ok \in BOOLEAN : install_files_extract(ok)
    \/ install_files_remove_zip
    \/ \E ok \in BOOLEAN : install_files_write_ini(ok)

InstallSpec == InstallInit /\ [][InstallNext]_vars

\* The script fetches the DLC list of the game selected in the scanned
\* library.
FetchInit == ScriptHooks /\ ScannedOneGame /\ FetchIdle /\ InstallIdle

FetchNext ==
    \/ \E n \in 0..MaxDlcIds : main_fetch_dlc_details(n)
    \/ fetch_dlc_details_next
    \/ \E r \in Answers : fetch_dlc_details_answer(r)
    \/ fetch_dlc_details_wakes

FetchSpec == FetchInit /\ [][FetchNext]_vars

\* The script scans the library.
ScanInit == ScriptHooks /\ ScriptIdle

ScanNext ==
    \/ \E files \in AcfListings : main_find_steam_apps(files)
    \/ find_steam_apps_item
    \/ parse_acf_raises
    \/ find_steam_apps_returns

ScanSpec == ScanInit /\ [][ScanNext]_vars

\* The SmokeAPI settings of the games of a library run through the
\* compatibility layer: the dialog is opened, edited, saved, cancelled and
\* opened again, for either game.
SettingsInit ==
    \E d \in InitialDisks :
        /\ \A g \in GameIds : ~d[g].native /\ ~d[g].cream_installed
        /\ d["g1"].smoke_installed
        /\ Loaded(d)

SettingsNext ==
    \/ \E g \in GameIds : handleSmokeAPISettingsOpen(g)
    \/ \E g \in GameIds : loadConfigReturns(g)
    \/ toggleEnabled
    \/ \E key \in ConfigKeys : \E value \in ConfigValues(key) :
          updateConfig(key, value)
    \/ handleCancel
    \/ handleSave
    \/ \E c \in BagToSet(saveCalls) : handleSaveDone(c)
    \/ \E c \in BagToSet(saveCalls) : handleSaveFailed(c)

SettingsSpec == SettingsInit /\ [][SettingsNext]_vars

(***************************************************************************)
(* Properties                                                              *)
(***************************************************************************)
CreamToProton(g) == [gameId |-> g, type |-> "cream-to-proton"]
SmokeToNative(g) == [gameId |-> g, type |-> "smoke-to-native"]

\* How often conflict c occurs in the detected list.
Occurrences(c) == Cardinality({ i \in 1..Len(conflicts) : conflicts[i] = c })

\* Game g has an entry of either type in the detected list.
Detected(g) == \E i \in 1..Len(conflicts) : conflicts[i].gameId = g

\* The record of a game breaks the platform/installed-kind invariant.
Mismatched(game) ==
    \/ ~game.native /\ game.cream_installed
    \/ game.native /\ game.smoke_installed

\* C1: for every game at most one job command is in flight at any time,
\* whichever control issued the requests.
C1_OneJobPerGame ==
    \A g \in GameIds : BagCardinality(JobsOf(g)) <= 1

\* C2: a game with cream_installed and not native has exactly one
\* 'cream-to-proton' entry in the detected list as long as it has not been
\* resolved, and once resolveConflict has been called for it, it is neither
\* in the detected list nor the current conflict, whatever happens to the
\* games afterwards.
C2_CreamToProtonOnceUntilResolved ==
    \A g \in DOMAIN games :
        /\ (~games[g].native /\ games[g].cream_installed
                /\ g \notin resolvedConflicts)
              => Occurrences(CreamToProton(g)) = 1
        /\ g \in resolvedConflicts
              => ~Detected(g) /\ currentConflict.gameId # g

\* A resolved game that still has CreamLinux under Proton, after the
\* resolve command has settled, and is not flagged.
C2_Witness ==
    \E g \in DOMAIN games :
        /\ g \in resolvedConflicts
        /\ ~games[g].native /\ games[g].cream_installed
        /\ resolves = {}
        /\ conflictTimer = NoTimer
        /\ ~Detected(g)

\* C3: whenever the DLC dialog is closed while the catalog stream of its
\* game is still running, abort_dlc_fetch is invoked for that game.
C3_CloseAbortsStream ==
    [][(/\ dlcDialog.visible
        /\ ~dlcDialog'.visible
        /\ streaming[dlcDialog.gameId].active)
          => dlcDialog.gameId \in abortCalls']_vars

\* C4: while the DLC dialog is closed its catalog list is empty, whatever
\* dlc-found events arrive.
C4_ClosedListStaysEmpty ==
    ~dlcDialog.visible => dlcDialog.dlcs = <<>>

\* C5: installing is true for a game only while a job command for it is in
\* flight, and the step in which a job command settles, with success or
\* failure, leaves installing false for its game.
C5_NoStuckLock ==
    /\ [](\A g \in DOMAIN games :
              games[g].installing => JobsOf(g) # EmptyBag)
    /\ [][\A j \in BagToSet(jobs) :
              CopiesIn(j, jobs') < CopiesIn(j, jobs)
                  => ~games'[j.game].installing]_vars

\* A job of a game has settled (its unlocker is installed now, nothing was
\* installed at the start), nothing is in flight for the game and the game
\* accepts requests again.
C5_Witness ==
    \E g \in DOMAIN games :
        /\ games[g].cream_installed \/ games[g].smoke_installed
        /\ JobsOf(g) = EmptyBag
        /\ ~games[g].installing

\* C6: the detected list holds, for every loaded game that is not resolved,
\* one 'cream-to-proton' entry iff the game is not native and has
\* CreamLinux, one 'smoke-to-native' entry iff it is native and has
\* SmokeAPI, and it holds nothing else.
C6_DetectedListExact ==
    /\ \A g \in GameIds :
          LET live == g \in DOMAIN games /\ g \notin resolvedConflicts
          IN  /\ Occurrences(CreamToProton(g)) =
                    IF live /\ ~games[g].native /\ games[g].cream_installed
                        THEN 1 ELSE 0
              /\ Occurrences(SmokeToNative(g)) =
                    IF live /\ games[g].native /\ games[g].smoke_installed
                        THEN 1 ELSE 0
    /\ \A i \in 1..Len(conflicts) :
          \E g \in GameIds :
              conflicts[i] \in {CreamToProton(g), SmokeToNative(g)}

\* Both kinds of conflict are detected at once.
C6_Witness ==
    /\ Len(conflicts) = 2
    /\ conflicts[1].type # conflicts[2].type

\* C7: every detected conflict eventually becomes the current one, unless
\* it stops being detected, provided the dialogs shown are answered.
C7_EveryConflictSurfaced ==
    \A g \in GameIds :
        Detected(g) ~> (currentConflict.gameId = g \/ ~Detected(g))

\* The conflict of the second game is the current one after the conflict
\* of the first has been resolved and its reminder closed.
C7_Witness ==
    /\ "g1" \in resolvedConflicts
    /\ currentConflict.gameId = "g2"
    /\ ~showReminder
    /\ conflictTimer = NoTimer

\* C8: a game that is excluded from detection as resolved, with no resolve
\* command in flight for it, does not break the platform/installed-kind
\* invariant.
C8_ResolvedMeansCleared ==
    \A g \in resolvedConflicts :
        (g \in DOMAIN games /\ ~\E r \in resolves : r.gameId = g)
            => ~Mismatched(games[g])

\* C9: resolve_platform_conflict is never in flight for a game that has a
\* job command in flight.
C9_SingleWriter ==
    \A r \in resolves : JobsOf(r.gameId) = EmptyBag

\* C10: the selection a confirm submits for a game holds only items of the
\* catalog of that game.
C10_SelectionOfOwnGame ==
    \A j \in BagToSet(jobs) : AppidsOf(j.dlcs) \subseteq Catalog[j.game]

\* No appid occurs twice in a list of DLC items.
NoDuplicates(list) ==
    \A i, k \in 1..Len(list) : list[i].appid = list[k].appid => i = k

C12_InstallOnlyWhenEligible ==
    \A j \in BagToSet(jobs) :
        /\ j.cmd = "install_smoke"
              => ~games[j.game].native /\ games[j.game].api_files
        /\ j.cmd = "install_cream_with_dlcs" => games[j.game].native

\* C13: as long as a job command of a game is in flight the game is shown
\* as installing, whatever game-updated events, rescans and other settling
\* jobs do to the games state.
C13_InstallingWhileInFlight ==
    \A j \in BagToSet(jobs) :
        j.game \in DOMAIN games => games[j.game].installing

\* C14: once a job has ended with a terminal event without instructions
\* or with the rejection of its command, which is when a hide timer is
\* started, the progress dialog is eventually hidden, with no action of
\* the user.
C14_EndedJobHidesDialog ==
    (hideTimers > 0) ~> ~progressDialog.visible

\* A command was rejected and its error message is still in the dialog,
\* which is hidden; no job and no timer is left.
C14_Witness ==
    /\ ~progressDialog.visible
    /\ progressDialog.progress = 100
    /\ ~progressDialog.showInstructions
    /\ hideTimers = 0
    /\ jobs = EmptyBag

\* C15: a progress dialog that shows instructions is hidden only by the
\* Close button, never by a timer.
C15_InstructionsStayUntilClosed ==
    [][(/\ progressDialog.visible
        /\ progressDialog.showInstructions
        /\ ~progressDialog'.visible)
          => hideTimers' = hideTimers]_vars

\* C16: the rejection of a job command of a game changes, in the games
\* state, nothing but the installing flag of that game, and leaves the
\* other job commands in flight.
C16_FailureTouchesOnlyItsGame ==
    [][\A j \in BagToSet(jobs) :
          JobFails(j) =>
              /\ DOMAIN games' = DOMAIN games
              /\ \A g \in DOMAIN games \ {j.game} : games'[g] = games[g]
              /\ games'[j.game] = [games[j.game] EXCEPT !.installing = FALSE]
              /\ jobs' = jobs (-) SetToBag({j})
              /\ disk' = disk]_vars

\* A command has been rejected (its error message is in the progress
\* dialog) and the game it was for accepts requests again, while the job
\* of the other game is still in flight and that game still installing.
C16_Witness ==
    /\ progressDialog.progress = 100
    /\ ~progressDialog.showInstructions
    /\ \E a, b \in DOMAIN games :
          /\ a # b
          /\ JobsOf(a) = EmptyBag /\ ~games[a].installing
          /\ JobsOf(b) # EmptyBag /\ games[b].installing

\* C17: while a job command of another game is in flight, a game that is
\* not installing accepts the request of every control its card shows (as
\* far as the bound on the commands in flight allows), and every command
\* in flight can settle (as far as the bound on the pending timers allows).
C17_GamesAreIndependent ==
    /\ \A b \in DOMAIN games :
          (/\ \E a \in DOMAIN games \ {b} : JobsOf(a) # EmptyBag
           /\ CardsShown
           /\ ~games[b].installing
           /\ BagCardinality(jobs) < MaxInFlight)
            => /\ shouldShowSmoke(games[b]) => ENABLED handleSmokeAction(b)
               /\ (shouldShowCream(games[b]) /\ games[b].cream_installed)
                     => ENABLED handleCreamUninstall(b)
               /\ isProtonNoApi(games[b]) => ENABLED RescanClick(b)
    /\ \A j \in BagToSet(jobs) :
          hideTimers < MaxHideTimers => ENABLED JobFails(j)

\* Job commands of both games are in flight at once, each game installing.
C17_Witness ==
    /\ JobsOf("g1") # EmptyBag
    /\ JobsOf("g2") # EmptyBag
    /\ \A g \in DOMAIN games : games[g].installing

\* C18: when the editor of a game receives a stored configuration that is
\* not empty, the selection it shows is exactly the stored list, items
\* and flags, and no catalog stream is started.
C18_EditorShowsStoredList ==
    [][\A g \in GameIds :
          (/\ handleGameEditLoaded(g)
           /\ dlcDialog.visible
           /\ dlcDialog.isEditMode
           /\ dlcDialog.gameId = g)
            => /\ selectedDlcs' = manifest[g].dlcs
               /\ streaming' = streaming
               /\ streamCalls' = streamCalls]_vars

\* C19: in an editor that fell back to the stream and has received the
\* stored enabled set of its game, which is not empty, every item of the
\* selection is enabled iff its appid is in that set.
C19_StreamedItemsTakeStoredFlags ==
    (/\ dlcDialog.visible
     /\ dlcDialog.isEditMode
     /\ dlcDialog.enabledDlcs # {}
     /\ dlcDialog.enabledDlcs = EnabledIn(manifest[dlcDialog.gameId].dlcs))
      => \A i \in 1..Len(selectedDlcs) :
            selectedDlcs[i].enabled
                <=> selectedDlcs[i].appid \in dlcDialog.enabledDlcs

\* C20: update_dlc_configuration_command stores the list it is given, and
\* when the editor of a game receives a configuration that was stored by
\* that command, the selection it shows is exactly that list, items and
\* flags.
C20_SavedSelectionReopens ==
    [][/\ \A j \in BagToSet(jobs) :
             (JobSucceeds(j) /\ j.cmd = "update_dlc_configuration")
                => manifest'[j.game].dlcs = j.dlcs
       /\ \A g \in GameIds :
             (/\ handleGameEditLoaded(g)
              /\ manifest[g].writer = "update"
              /\ dlcDialog.visible
              /\ dlcDialog.isEditMode
              /\ dlcDialog.gameId = g)
                => selectedDlcs' = manifest[g].dlcs]_vars

\* The job commands that install CreamLinux.
InstallsCream(cmd) == cmd \in {"install_cream", "install_cream_with_dlcs"}

\* C21: a command installing CreamLinux is sent only by the step in which
\* the user confirms the selection of the install dialog, for the game and
\* with the selection of that dialog; a step that cancels the dialog sends
\* no command and changes neither the games state nor the directories;
\* and CreamLinux appears in a directory only while such a command is in
\* flight.
C21_InstallOnlyOnConfirm ==
    [][ /\ \A j \in BagToSet(jobs') :
              (InstallsCream(j.cmd) /\ CopiesIn(j, jobs') > CopiesIn(j, jobs))
                  => /\ handleDlcConfirm
                     /\ dlcDialog.visible /\ ~dlcDialog.isEditMode
                     /\ j = Job(dlcDialog.gameId, "install_cream_with_dlcs",
                                selectedDlcs)
        /\ CancelClick => (jobs' = jobs /\ games' = games /\ disk' = disk)
        /\ \A g \in GameIds :
              (~disk[g].cream_installed /\ disk'[g].cream_installed)
                  => \E j \in BagToSet(jobs) :
                        j.game = g /\ j.cmd = "install_cream_with_dlcs" ]_vars

\* An install dialog has been cancelled and another one confirmed: the
\* only command in flight is the one of the confirmed game.
C21_Witness ==
    /\ ~dlcDialog.visible
    /\ \E j \in BagToSet(jobs) : j.cmd = "install_cream_with_dlcs"
    /\ \E g \in GameIds :
          /\ g \in DOMAIN games
          /\ ~games[g].cream_installed /\ ~games[g].installing
          /\ JobsOf(g) = EmptyBag
          /\ streaming[g].active

\* The games whose record differs between the two states of a step.
ChangedGames == { g \in DOMAIN games \cap DOMAIN games' : games'[g] # games[g] }

\* C22: the step that delivers game-updated for a game keeps the set of
\* ids, keeps the record of every other game as it was and sets the
\* record of the game, if there is one, to the payload; a step that
\* changes the set of ids or more than one record is a scan that has
\* succeeded, and a scan that failed keeps the games state.
C22_UpdateTouchesOnlyItsGame ==
    [][ /\ \A j \in BagToSet(jobs) :
              JobSucceeds(j)
                  => /\ DOMAIN games' = DOMAIN games
                     /\ ChangedGames \subseteq {j.game}
                     /\ j.game \in DOMAIN games
                           => games'[j.game] = GameOf(disk'[j.game])
        /\ (DOMAIN games' # DOMAIN games \/ Cardinality(ChangedGames) > 1)
              => loadGamesDone
        /\ loadGamesFailed => games' = games ]_vars

\* The job of a game that the last scan did not return has succeeded: the
\* games state has no record of it, the dialog still shows its progress.
C22_Witness ==
    /\ "g1" \notin DOMAIN games
    /\ "g2" \in DOMAIN games
    /\ disk["g1"].smoke_installed
    /\ jobs = EmptyBag
    /\ hideTimers > 0
    /\ progressDialog.visible /\ progressDialog.progress < 100

\* C23: a scan that fails sets the error and keeps the games state, and
\* the step in which it fails shows no toast of a successful refresh; the
\* list of games is not rendered while the error is set, so the failure
\* is not shown as a library without games.
C23_FailedScanSurfaced ==
    [][loadGamesFailed
          => /\ error'
             /\ games' = games
             /\ ~CardsShown'
             /\ RefreshedToast \notin toasts' \ toasts]_vars

\* C24: when the download of the archive, its extraction or the write of
\* cream_api.ini fails part-way, the install directory holds exactly what
\* it held before install_files was called: no archive, no extracted file,
\* no partial configuration.
C24_FailedInstallLeavesDirIntact ==
    install_pc \in {"declined", "raised"} => game_install_dir = dir_before

\* C25: a lookup answered with 429 is repeated after the pause, so that no
\* DLC is left with 429 as its last answer when the list is returned, every
\* DLC whose last answer carried its data is in the list, and a 429 does
\* not end the loop before every DLC was looked up.
C25_ThrottledLookupRetried ==
    fetch_pc = "returned" =>
        \A i \in 1..Len(game_dlcs) :
            LET answers == responses[game_dlcs[i]] IN
                /\ answers # <<>>
                /\ answers[Len(answers)] # "429"
                /\ answers[Len(answers)] = "ok" =>
                       \E k \in 1..Len(dlc_details) :
                           dlc_details[k] = game_dlcs[i]

\* C26: a manifest without appid, name or installdir is skipped: the scan
\* never ends with an exception, and it returns every game whose manifest
\* is complete and whose install path exists.
C26_CorruptManifestSkipped ==
    /\ scan_pc # "raised"
    /\ scan_pc = "returned" =>
          steam_apps = { i \in 1..Len(acf_files) :
                           Parses(acf_files[i]) /\ acf_files[i].install_path }

\* C27: while the progress dialog is shown with a progress below 100 and
\* without instructions, no step is a click on its Close button or a
\* backdrop click that closes it: the button is not offered and the
\* backdrop click is ignored.
C27_NoCloseBelow100 ==
    [][(/\ progressDialog.visible
        /\ progressDialog.progress < 100
        /\ ~progressDialog.showInstructions)
          => /\ ~handleCloseProgressDialog
             /\ ~handleBackdropClick
             /\ ~ENABLED handleCloseProgressDialog
             /\ ~ENABLED handleBackdropClick]_vars

\* A job is running and its dialog shows a progress of 50 without
\* instructions.
C27_Witness ==
    /\ progressDialog.visible
    /\ progressDialog.progress = 50
    /\ ~progressDialog.showInstructions
    /\ jobs # EmptyBag

\* C28: the conflict dialog and the launch-options reminder are never shown
\* together: while the reminder is shown no conflict is surfaced.
C28_ConflictAndReminderApart ==
    ~(currentConflict # NoConflict /\ showReminder)

\* C29: whenever the DLC dialog is open, it is eventually closed or its
\* Cancel button is enabled, the user not being asked to do anything:
\* Cancel does not stay disabled forever, also when stream_game_dlcs fails
\* to start.
C29_DialogClosable ==
    dlcDialog.visible ~>
        \/ ~dlcDialog.visible
        \/ ~(dlcDialog.isLoading /\ dlcDialog.progress < 10)

\* C30: while the dialog is open and the catalog stream of its game is
\* active, isLoading is true (and with it Confirm disabled); neither a
\* completion timer nor an error event of an earlier session ends the
\* loading state of the session that is open.
C30_LoadingWhileStreamActive ==
    (dlcDialog.visible /\ streaming[dlcDialog.gameId].active)
        => dlcDialog.isLoading /\ ~ENABLED handleDlcConfirm

\* C31: a hide timer armed when a job ended never hides the progress dialog
\* of a job that is still running: a timer that fires while a job is in
\* flight and the dialog shows a progress below 100 leaves it visible.
C31_StaleTimerKeepsDialog ==
    [][(/\ hideTimerFires
        /\ jobs # EmptyBag
        /\ progressDialog.visible
        /\ progressDialog.progress < 100)
          => progressDialog'.visible]_vars

\* C32: at most one scan_steam_games call is in flight at any time, at
\* startup as well, where the initial scan is issued once.
C32_OneScanInFlight == scanCalls <= 1

C34_NoSecondStream ==
    [][\A g \in GameIds :
          handleGameEditFallback(g) => ~streaming[g].active]_vars

\* The sequence s is the beginning of the sequence t.
IsPrefix(s, t) ==
    /\ Len(s) <= Len(t)
    /\ \A i \in 1..Len(s) : s[i] = t[i]

\* C35: while the dialog stays open, a step that is not a toggle of the
\* user (a dlc-found arrival, a rewrite of the list with the stored enabled
\* set, a progress event) leaves every item of the selection as it is, its
\* enabled flag included, and appends only items whose appid the selection
\* does not hold yet.
C35_SelectionOnlyGrows ==
    [][(/\ dlcDialog.visible
        /\ dlcDialog'.visible
        /\ ~(\E a \in Appids : handleToggleDlc(a)))
          => /\ IsPrefix(selectedDlcs, selectedDlcs')
             /\ \A i \in (Len(selectedDlcs) + 1)..Len(selectedDlcs') :
                   /\ selectedDlcs'[i].appid \notin AppidsOf(selectedDlcs)
                   /\ \A k \in (Len(selectedDlcs) + 1)..(i - 1) :
                         selectedDlcs'[k].appid # selectedDlcs'[i].appid]_vars

\* The user has switched the item of the open editor off against the
\* stored enabled set; the item has arrived again since and the list has
\* been rewritten with the stored set, which shows it switched on.
C35_Witness ==
    /\ dlcDialog.visible
    /\ Len(selectedDlcs) = 1
    /\ selectedDlcs[1].appid \in dlcDialog.enabledDlcs
    /\ ~selectedDlcs[1].enabled
    /\ Len(dlcDialog.dlcs) = 2
    /\ \A i \in 1..2 : /\ dlcDialog.dlcs[i].appid = selectedDlcs[1].appid
                        /\ dlcDialog.dlcs[i].enabled

\* No DLC list command is in flight, no catalog stream runs and no timer
\* is pending: nothing is left that changes the catalog or the stored set
\* of the dialog but a new request of the user, which puts a command in
\* flight.
DlcQuiet ==
    /\ DlcCallsInFlight = 0
    /\ \A g \in GameIds : ~streaming[g].active
    /\ doneTimers = 0

\* C36: the effect that applies the stored enabled set to the streamed
\* catalog reaches a fixed point: once the catalog and the stored set have
\* stopped changing, it makes finitely many state updates, so that from
\* some point on `dlcs` holds one and the same array.
C36_EffectSettles ==
    <>[]DlcQuiet =>
        \/ <>[](dlcDialog.dlcsRef = 0)
        \/ <>[](dlcDialog.dlcsRef = 1)

====
